---- MODULE Spec2Model ----
(***************************************************************************)
(* Schedule resolution engine of the AutoClose desktop scheduler            *)
(* (src/packaging/desktop_scheduler_qt.py): holiday calendar, day slots,    *)
(* playlist rotation, the polling trigger loop with its deferred            *)
(* (QTimer.singleShot) configuration updates, and the forced run.           *)
(*                                                                          *)
(* Dates are day numbers counted from Monday 2024-01-01 (day 0); the ISO    *)
(* text "YYYY-MM-DD" the code stores is the tuple <<y, m, d>>.  A time of   *)
(* day "HH:MM" is the tuple <<hh, mm>>.  None / "" is NoAudio for an audio  *)
(* reference and NoDate for last_ran.                                       *)
(***************************************************************************)
EXTENDS Integers, Sequences, FiniteSets, TLC

VARIABLES cfg, now, timers, signals, emitted, executed, forced, ret, adv,
          gui, shut, marked, loop, disk, lock, engine

vars == <<cfg, now, timers, signals, emitted, executed, forced, ret, adv,
          gui, shut, marked, loop, disk, lock, engine>>

\* cfg      ConfigManager.config, the in-memory configuration
\* disk     the settings file as ConfigManager._write left it
\* lock     <<>>, or the update that holds ConfigManager._lock: the
\*          configuration before it and the one it will leave
\* now      the instant the polling thread last read the clock
\* timers   the zero-delay timers started and not yet run, oldest first
\* signals  schedule_triggered events queued for the GUI thread
\* emitted  per date, the fire events emitted so far
\* marked   per date, the _mark updates applied so far
\* executed per date, the runs of the firing sequence so far
\* forced   the forced runs so far
\* loop     the polling thread: "running", or "dead" once an exception has
\*          left SchedulerEngine._loop
\* adv      the rotation at the last playlist edit (or at start) and the
\*          _bump updates applied since

(* ------------------------------ bounds --------------------------------- *)
MaxDay == 2          \* calendar days the clock walks through (from Monday)
MaxStep == 4         \* clock instants per day after the first, 15 s apart
MaxPlaylist == 2     \* longest playlist
MaxTimers == 3       \* longest queue of deferred updates
MaxForced == 1       \* forced runs per behaviour
MaxRanges == 2       \* longest holiday_ranges list drawn
MaxCursor == 5       \* largest persisted rotation cursor drawn
MaxThreads == 2      \* threads start() creates per behaviour

(* --------------------------- program constants ------------------------- *)
TRIGGER_WINDOW == 30
POLL_INTERVAL == 15

DAY_KEYS == <<"mon", "tue", "wed", "thu", "fri", "sat", "sun">>
DayKeySet == {DAY_KEYS[i] : i \in 1..7}
Tracks == {"a", "b", "c"}
NoAudio == ""
NoDate == <<>>

(* ------------------------------ calendar ------------------------------- *)
IsLeap(y) == (y % 4 = 0 /\ y % 100 # 0) \/ y % 400 = 0

DaysInMonth(y, m) ==
  IF m = 2 THEN (IF IsLeap(y) THEN 29 ELSE 28)
  ELSE IF m \in {4, 6, 9, 11} THEN 30 ELSE 31

RECURSIVE DaysBeforeMonth(_, _)
DaysBeforeMonth(y, m) ==
  IF m <= 1 THEN 0 ELSE DaysBeforeMonth(y, m - 1) + DaysInMonth(y, m - 1)

RECURSIVE DaysBeforeYear(_)
DaysBeforeYear(y) ==
  IF y <= 2024 THEN 0
  ELSE DaysBeforeYear(y - 1) + (IF IsLeap(y - 1) THEN 366 ELSE 365)

\* date.weekday(): 0 = Monday .. 6 = Sunday
weekday(d) == d % 7

DayKeyOf(d) == DAY_KEYS[weekday(d) + 1]

RECURSIVE IsoFrom(_, _, _)
IsoFrom(y, m, rest) ==
  IF rest < DaysInMonth(y, m) THEN <<y, m, rest + 1>>
  ELSE IF m = 12 THEN IsoFrom(y + 1, 1, rest - DaysInMonth(y, m))
  ELSE IsoFrom(y, m + 1, rest - DaysInMonth(y, m))

\* date.isoformat()
isoformat(d) == IsoFrom(2024, 1, d)

\* datetime.strptime(s, "%Y-%m-%d").date(): the day number, or -1 where
\* strptime raises (missing key, not a date)
strptime(s) ==
  IF Len(s) = 3 /\ s[1] >= 2024 /\ s[2] \in 1..12
     /\ s[3] >= 1 /\ s[3] <= DaysInMonth(s[1], s[2])
  THEN DaysBeforeYear(s[1]) + DaysBeforeMonth(s[1], s[2]) + s[3] - 1
  ELSE -1

(* ---------------------------- configuration ---------------------------- *)
DaySchedule(k) ==
  [enabled |-> k \notin {"sat", "sun"},
   time |-> <<9, 0>>,
   auto_assign |-> TRUE,
   audio_path |-> NoAudio,
   allow_remote |-> TRUE,
   allow_local_shutdown |-> TRUE,
   last_ran |-> NoDate]

SchedulerConfig ==
  [playlist |-> <<>>,
   playlist_rotation |-> 0,
   enable_remote_shutdown |-> TRUE,
   enable_local_shutdown |-> TRUE,
   holidays_enabled |-> TRUE,
   auto_skip_weekends |-> TRUE,
   holidays |-> <<>>,
   holiday_ranges |-> <<>>,
   days |-> [k \in DayKeySet |-> DaySchedule(k)]]

\* SchedulerConfig.as_dict: the dictionary ConfigManager._write dumps
as_dict(c) ==
  [playlist |-> c.playlist,
   playlist_rotation |-> c.playlist_rotation,
   enable_remote_shutdown |-> c.enable_remote_shutdown,
   enable_local_shutdown |-> c.enable_local_shutdown,
   holidays_enabled |-> c.holidays_enabled,
   auto_skip_weekends |-> c.auto_skip_weekends,
   holidays |-> c.holidays,
   holiday_ranges |-> c.holiday_ranges,
   days |-> [k \in DOMAIN c.days |->
               [enabled |-> c.days[k].enabled,
                time |-> c.days[k].time,
                auto_assign |-> c.days[k].auto_assign,
                audio_path |-> c.days[k].audio_path,
                allow_remote |-> c.days[k].allow_remote,
                allow_local_shutdown |-> c.days[k].allow_local_shutdown,
                last_ran |-> c.days[k].last_ran]]]

(* ------------------------ the persisted snapshot ----------------------- *)
\* what CONFIG_FILE may hold: no file at all, text json.loads refuses, a JSON
\* document that is no object (null, a number, a list), or an object, which is
\* the record of its keys
NoFile == [file |-> "absent"]
NotJson == [file |-> "not json"]
JsonNull == [json |-> "null"]
JsonNumber == [json |-> "number"]
JsonList == [json |-> "list"]
IsObject(v) == "json" \notin DOMAIN v /\ "file" \notin DOMAIN v

TypeError == [raised |-> "TypeError"]
AttributeError == [raised |-> "AttributeError"]
IsRaised(v) == "raised" \in DOMAIN v

\* DaySchedule(): the dataclass defaults, enabled included
NewDaySchedule == [DaySchedule("sat") EXCEPT !.enabled = TRUE]

\* DaySchedule.from_dict: `key in data` raises on null and on a number, finds
\* nothing in a list, and copies the fields an object has
DaySchedule_from_dict(data) ==
  IF data \in {JsonNull, JsonNumber} THEN TypeError
  ELSE IF data = JsonList THEN NewDaySchedule
  ELSE [f \in DOMAIN NewDaySchedule |->
          IF f \in DOMAIN data THEN data[f] ELSE NewDaySchedule[f]]

\* variant: the day table is the one of the file, nothing filled in
FilledDays_asgiven(given) ==
  [k \in DOMAIN given |-> DaySchedule_from_dict(given[k])]

\* the day table from_dict builds: the entries of the file, then setdefault
\* for every key of DAY_KEYS
FilledDays(given) ==
  [k \in DOMAIN given \cup DayKeySet |->
     IF k \in DOMAIN given THEN DaySchedule_from_dict(given[k])
     ELSE DaySchedule(k)]

\* SchedulerConfig.from_dict: the configuration, or the exception it leaves
\* with; auto_skip_weekends goes through coerce_bool, which returns a bool
\* as it is
from_dict(data) ==
  IF data \in {JsonNull, JsonNumber} THEN TypeError
  ELSE IF data = JsonList THEN AttributeError
  ELSE
    LET given == IF "days" \in DOMAIN data THEN data.days ELSE <<>>
    IN  IF ~IsObject(given) THEN AttributeError
        ELSE IF \E k \in DOMAIN given : IsRaised(DaySchedule_from_dict(given[k]))
        THEN TypeError
        ELSE [f \in DOMAIN SchedulerConfig |->
                IF f = "days" THEN FilledDays(given)
                ELSE IF f \in DOMAIN data THEN data[f]
                ELSE SchedulerConfig[f]]

\* ConfigManager._apply_migrations(config, data): whether the configuration
\* was changed, or the exception of `"auto_skip_weekends" not in data`
_apply_migrations(config, data) ==
  IF data = JsonNumber THEN TypeError
  ELSE
    LET absent == \/ data \in {NoFile, NotJson, JsonNull, JsonList}
                  \/ "auto_skip_weekends" \notin DOMAIN data
    IN  [changed |-> absent /\ config.auto_skip_weekends # TRUE]

\* ConfigManager._load: the configuration and the file it leaves behind, or
\* the exception that leaves it; raw_data stays None where the file is
\* absent or json.loads raises
_load(file) ==
  LET parsed == IF file \in {NoFile, NotJson} THEN TypeError ELSE from_dict(file)
      config == IF IsRaised(parsed) THEN SchedulerConfig ELSE parsed
      migrated == _apply_migrations(config, file)
  IN  IF IsRaised(migrated) THEN [raised |-> migrated.raised, file |-> file]
      ELSE IF migrated.changed
      THEN [config |-> [config EXCEPT !.auto_skip_weekends = TRUE],
            file |-> as_dict([config EXCEPT !.auto_skip_weekends = TRUE])]
      ELSE [config |-> config, file |-> file]

(* --------------------------- holiday calendar -------------------------- *)
\* `x in list` of Python
In(x, list) == \E i \in 1..Len(list) : list[i] = x

\* variant: the end of a range is excluded
RangeMatches_exclusive(rng, target) ==
  LET start == strptime(rng.start)
      end == strptime(rng.end)
  IN  start >= 0 /\ end >= 0 /\ start <= target /\ target < end

RangeMatches(rng, target) ==
  LET start == strptime(rng.start)
      end == strptime(rng.end)
  IN  start >= 0 /\ end >= 0 /\ start <= target /\ target <= end

\* variant: only Sunday counts as the weekend
is_holiday_sunday(c, target) ==
  IF c.auto_skip_weekends /\ weekday(target) > 5 THEN TRUE
  ELSE IF In(isoformat(target), c.holidays) THEN TRUE
  ELSE \E i \in 1..Len(c.holiday_ranges) :
         RangeMatches(c.holiday_ranges[i], target)

is_holiday(c, target) ==
  IF c.auto_skip_weekends /\ weekday(target) >= 5 THEN TRUE
  ELSE IF In(isoformat(target), c.holidays) THEN TRUE
  ELSE \E i \in 1..Len(c.holiday_ranges) :
         RangeMatches(c.holiday_ranges[i], target)

\* variant: the master switch is not consulted
is_day_eligible_noswitch(c, day_cfg, current_date) ==
  IF ~day_cfg.enabled THEN FALSE
  ELSE IF is_holiday(c, current_date) THEN FALSE
  ELSE IF day_cfg.last_ran = isoformat(current_date) THEN FALSE
  ELSE TRUE

\* variant: the marker blocks the weekday it was stamped on
is_day_eligible_weekly(c, day_cfg, current_date) ==
  IF ~day_cfg.enabled THEN FALSE
  ELSE IF c.holidays_enabled /\ is_holiday(c, current_date) THEN FALSE
  ELSE IF strptime(day_cfg.last_ran) >= 0
          /\ weekday(strptime(day_cfg.last_ran)) = weekday(current_date) THEN FALSE
  ELSE TRUE

is_day_eligible(c, day_cfg, current_date) ==
  IF ~day_cfg.enabled THEN FALSE
  ELSE IF c.holidays_enabled /\ is_holiday(c, current_date) THEN FALSE
  ELSE IF day_cfg.last_ran = isoformat(current_date) THEN FALSE
  ELSE TRUE

(* --------------------------- playlist rotation ------------------------- *)
\* SchedulerEngine._resolve_audio: the track it returns and whether it
\* schedules the deferred _bump
\* variant: the deferred _bump is never scheduled
_resolve_audio_nobump(c, day_cfg) ==
  IF ~day_cfg.auto_assign /\ day_cfg.audio_path # NoAudio
  THEN [path |-> day_cfg.audio_path, bump |-> FALSE]
  ELSE IF c.playlist = <<>>
  THEN [path |-> day_cfg.audio_path, bump |-> FALSE]
  ELSE [path |-> c.playlist[(c.playlist_rotation % Len(c.playlist)) + 1],
        bump |-> FALSE]

_resolve_audio(c, day_cfg) ==
  IF ~day_cfg.auto_assign /\ day_cfg.audio_path # NoAudio
  THEN [path |-> day_cfg.audio_path, bump |-> FALSE]
  ELSE IF c.playlist = <<>>
  THEN [path |-> day_cfg.audio_path, bump |-> FALSE]
  ELSE [path |-> c.playlist[(c.playlist_rotation % Len(c.playlist)) + 1],
        bump |-> TRUE]

Max(a, b) == IF a >= b THEN a ELSE b

\* variant: the cursor is not reduced
_bump_unbounded(c) ==
  [c EXCEPT !.playlist_rotation = c.playlist_rotation + 1]

\* variant: the modulus is one too large
_bump_offbyone(c) ==
  [c EXCEPT !.playlist_rotation =
     (c.playlist_rotation + 1) % (Len(c.playlist) + 1)]

_bump(c) ==
  [c EXCEPT !.playlist_rotation =
     (c.playlist_rotation + 1) % Max(1, Len(c.playlist))]

_mark(c, day_key, date) ==
  [c EXCEPT !.days[day_key].last_ran = isoformat(date)]

(* ----------------------- deferred updates (QTimer) --------------------- *)
BumpTimer(th) == [kind |-> "bump", thread |-> th, day_key |-> "", date |-> 0]
MarkTimer(th, k, d) == [kind |-> "mark", thread |-> th, day_key |-> k, date |-> d]

\* the updater a timer hands to ConfigManager.update
Updater(t, c) ==
  IF t.kind = "bump" THEN _bump(c) ELSE _mark(c, t.day_key, t.date)

\* zero-delay timers of one thread run in the order they were started
Runnable(i) ==
  /\ i \in 1..Len(timers)
  /\ \A j \in 1..(i - 1) : timers[j].thread # timers[i].thread

RemoveAt(s, i) == SubSeq(s, 1, i - 1) \o SubSeq(s, i + 1, Len(s))

(* ------------------------------- clock --------------------------------- *)
Dates == 0..(MaxDay - 1)

\* the clock is read one polling interval before 09:00 and then at every
\* polling interval after it
FirstInstant == 9 * 3600 - POLL_INTERVAL
Secs == {FirstInstant + POLL_INTERVAL * i : i \in 0..MaxStep}

\* "HH:MM" -> seconds of the day of now.replace(hour, minute, second=0)
TimeSecs(t) == t[1] * 3600 + t[2] * 60

\* ret: the last engine function called since the configuration or the
\* clock last changed, its arguments and result; n counts the calls
NoCall == [op |-> "none", key |-> "", date |-> 0, val |-> "", n |-> 0]

(* --------------------------- upcoming-run projection -------------------- *)
\* limit=None
NoLimit == 0 - 1

\* a datetime as seconds since the start of day 0
Instant(t) == t.date * 86400 + t.sec

\* day_cfg.time.split(":") gives two integers; a text that does not (no
\* colon, letters, empty) is the tuple <<>>
TimeParses(t) == Len(t) = 2

\* datetime.replace(hour=hh, minute=mm) accepts the two integers
TimeInRange(t) == t[1] \in 0..23 /\ t[2] \in 0..59

\* an exception leaves the function: the value ends with this marker
ValueError == [raised |-> "ValueError"]

Raised(result) == result # <<>> /\ result[Len(result)] = ValueError

\* the test `scheduled < now` of compute_upcoming_runs
scheduled_before_now(scheduled, n) == Instant(scheduled) < Instant(n)

UpcomingRun(c, day_cfg, day_key, scheduled, audio) ==
  [when |-> scheduled,
   day_key |-> day_key,
   audio_path |-> audio,
   auto_assign |-> day_cfg.auto_assign,
   remote_allowed |-> c.enable_remote_shutdown /\ day_cfg.allow_remote,
   local_allowed |-> c.enable_local_shutdown /\ day_cfg.allow_local_shutdown]

\* the body of the loop of compute_upcoming_runs from `offset` on, with the
\* local rotation index and the runs collected so far
RECURSIVE UpcomingFrom(_, _, _, _, _, _, _)
UpcomingFrom(c, n, horizon_days, limit, offset, index, runs) ==
  IF offset >= horizon_days THEN runs
  ELSE
    LET current == n.date + offset
        day_key == DayKeyOf(current)
        day_cfg == c.days[day_key]
        playlist_len == Len(c.playlist)
        scheduled == [date |-> current, sec |-> TimeSecs(day_cfg.time)]
        audio == IF day_cfg.auto_assign /\ playlist_len # 0
                 THEN c.playlist[(index % playlist_len) + 1]
                 ELSE IF day_cfg.audio_path # NoAudio THEN day_cfg.audio_path
                 ELSE IF day_cfg.auto_assign /\ playlist_len # 0
                      THEN c.playlist[(index % playlist_len) + 1]
                      ELSE NoAudio
        runs2 == Append(runs, UpcomingRun(c, day_cfg, day_key, scheduled, audio))
        index2 == IF day_cfg.auto_assign /\ playlist_len # 0
                  THEN (index + 1) % playlist_len ELSE index
    IN  IF ~is_day_eligible(c, day_cfg, current)
        THEN UpcomingFrom(c, n, horizon_days, limit, offset + 1, index, runs)
        ELSE IF ~TimeParses(day_cfg.time)
        THEN UpcomingFrom(c, n, horizon_days, limit, offset + 1, index, runs)
        ELSE IF ~TimeInRange(day_cfg.time)
        THEN Append(runs, ValueError)
        ELSE IF scheduled_before_now(scheduled, n)
        THEN UpcomingFrom(c, n, horizon_days, limit, offset + 1, index, runs)
        ELSE IF limit # NoLimit /\ Len(runs2) >= limit
        THEN runs2
        ELSE UpcomingFrom(c, n, horizon_days, limit, offset + 1, index2, runs2)

\* variant: the limit is ignored
compute_upcoming_runs_nolimit(c, n, horizon_days, limit) ==
  LET playlist_len == Len(c.playlist)
      rotation == IF playlist_len # 0
                  THEN c.playlist_rotation % Max(1, playlist_len) ELSE 0
  IN  UpcomingFrom(c, n, horizon_days, NoLimit, 0, rotation, <<>>)

\* variant: the local index starts at 0, not at the persisted rotation
compute_upcoming_runs_fromzero(c, n, horizon_days, limit) ==
  UpcomingFrom(c, n, horizon_days, limit, 0, 0, <<>>)

\* compute_upcoming_runs(cfg, horizon_days, limit) called at the instant n
compute_upcoming_runs(c, n, horizon_days, limit) ==
  LET playlist_len == Len(c.playlist)
      rotation == IF playlist_len # 0
                  THEN c.playlist_rotation % Max(1, playlist_len) ELSE 0
  IN  UpcomingFrom(c, n, horizon_days, limit, 0, rotation, <<>>)

\* predict_playlist_for_day(cfg, target_day) called at the instant n
predict_playlist_for_day(c, n, target_day) ==
  IF target_day \notin DayKeySet THEN NoAudio
  ELSE LET runs == compute_upcoming_runs(c, n, 28, NoLimit)
           hits == {i \in 1..Len(runs) : runs[i].day_key = target_day}
       IN  IF hits = {} THEN NoAudio
           ELSE runs[CHOOSE i \in hits : \A j \in hits : i <= j].audio_path

(* ----------------------------- trigger loop ---------------------------- *)
\* SchedulerEngine._compute_next_run of the packaged application: <<>>, the
\* next run, or the exception of compute_upcoming_runs
_compute_next_run(c, n) == compute_upcoming_runs(c, n, 28, 1)

\* SchedulerEngine._compute_next_run of src/desktop_scheduler_qt.py from
\* `offset` on: the time of every eligible day of the next 14 is parsed with
\* no exception handler
RECURSIVE NextRunFrom(_, _, _, _)
NextRunFrom(c, n, offset, best) ==
  IF offset >= 14 THEN best
  ELSE
    LET d == n.date + offset
        day_cfg == c.days[DayKeyOf(d)]
        candidate == [date |-> d, sec |-> TimeSecs(day_cfg.time)]
    IN  IF ~is_day_eligible(c, day_cfg, d)
        THEN NextRunFrom(c, n, offset + 1, best)
        ELSE IF ~TimeParses(day_cfg.time) \/ ~TimeInRange(day_cfg.time)
        THEN <<ValueError>>
        ELSE IF Instant(candidate) < Instant(n)
        THEN NextRunFrom(c, n, offset + 1, best)
        ELSE IF best = <<>> \/ Instant(candidate) < Instant(best[1])
        THEN NextRunFrom(c, n, offset + 1, <<candidate>>)
        ELSE NextRunFrom(c, n, offset + 1, best)

_compute_next_run_src(c, n) == NextRunFrom(c, n, 0, <<>>)

\* variant: only the global toggles decide
FireEvent_global(c, day_key, day_cfg, audio) ==
  [day_key |-> day_key,
   audio_path |-> audio,
   allow_remote |-> c.enable_remote_shutdown,
   allow_local |-> c.enable_local_shutdown]

FireEvent(c, day_key, day_cfg, audio) ==
  [day_key |-> day_key,
   audio_path |-> audio,
   allow_remote |-> c.enable_remote_shutdown /\ day_cfg.allow_remote,
   allow_local |-> c.enable_local_shutdown /\ day_cfg.allow_local_shutdown]

\* the window test of SchedulerEngine._check_trigger
\* variant: a poll one interval after the window still fires
InWindow_late(sec, target) ==
  0 <= sec - target /\ sec - target <= TRIGGER_WINDOW + POLL_INTERVAL

InWindow(sec, target) ==
  0 <= sec - target /\ sec - target <= TRIGGER_WINDOW

\* variant: the window is shorter than the polling interval
_check_trigger_narrow(n) ==
  LET day_key == DayKeyOf(n.date)
      day_cfg == cfg.days[day_key]
      r == _resolve_audio(cfg, day_cfg)
  IN  IF ~is_day_eligible(cfg, day_cfg, n.date)
      THEN UNCHANGED <<timers, signals, emitted, loop>>
      ELSE IF ~TimeParses(day_cfg.time) \/ ~TimeInRange(day_cfg.time)
      THEN loop' = "dead" /\ UNCHANGED <<timers, signals, emitted>>
      ELSE IF /\ 0 <= n.sec - TimeSecs(day_cfg.time)
              /\ n.sec - TimeSecs(day_cfg.time) <= POLL_INTERVAL - 2
      THEN /\ timers' = timers
                \o (IF r.bump THEN <<BumpTimer("poll")>> ELSE <<>>)
                \o <<MarkTimer("poll", day_key, n.date)>>
           /\ Len(timers') <= MaxTimers
           /\ signals' = Append(signals, FireEvent(cfg, day_key, day_cfg, r.path))
           /\ emitted' = [emitted EXCEPT ![n.date] = @ + 1]
           /\ loop' = loop
      ELSE UNCHANGED <<timers, signals, emitted, loop>>

\* SchedulerEngine._check_trigger at the instant n; the time of an eligible
\* slot is parsed with no exception handler
\* variant: the event is emitted but the last_ran stamp is never scheduled
_check_trigger_nomark(n) ==
  LET day_key == DayKeyOf(n.date)
      day_cfg == cfg.days[day_key]
      r == _resolve_audio(cfg, day_cfg)
  IN  IF ~is_day_eligible(cfg, day_cfg, n.date)
      THEN UNCHANGED <<timers, signals, emitted, loop>>
      ELSE IF ~TimeParses(day_cfg.time) \/ ~TimeInRange(day_cfg.time)
      THEN loop' = "dead" /\ UNCHANGED <<timers, signals, emitted>>
      ELSE IF InWindow(n.sec, TimeSecs(day_cfg.time))
      THEN /\ timers' = timers
                \o (IF r.bump THEN <<BumpTimer("poll")>> ELSE <<>>)
           /\ Len(timers') <= MaxTimers
           /\ signals' = Append(signals, FireEvent(cfg, day_key, day_cfg, r.path))
           /\ emitted' = [emitted EXCEPT ![n.date] = @ + 1]
           /\ loop' = loop
      ELSE UNCHANGED <<timers, signals, emitted, loop>>

_check_trigger(n) ==
  LET day_key == DayKeyOf(n.date)
      day_cfg == cfg.days[day_key]
      r == _resolve_audio(cfg, day_cfg)
  IN  IF ~is_day_eligible(cfg, day_cfg, n.date)
      THEN UNCHANGED <<timers, signals, emitted, loop>>
      ELSE IF ~TimeParses(day_cfg.time) \/ ~TimeInRange(day_cfg.time)
      THEN loop' = "dead" /\ UNCHANGED <<timers, signals, emitted>>
      ELSE IF InWindow(n.sec, TimeSecs(day_cfg.time))
      THEN /\ timers' = timers
                \o (IF r.bump THEN <<BumpTimer("poll")>> ELSE <<>>)
                \o <<MarkTimer("poll", day_key, n.date)>>
           /\ Len(timers') <= MaxTimers
           /\ signals' = Append(signals, FireEvent(cfg, day_key, day_cfg, r.path))
           /\ emitted' = [emitted EXCEPT ![n.date] = @ + 1]
           /\ loop' = loop
      ELSE UNCHANGED <<timers, signals, emitted, loop>>

\* some slot holds a time that split/int or datetime.replace refuses; only
\* then can a projection raise
HasBadTime(c) ==
  \E k \in DOMAIN c.days :
    ~TimeParses(c.days[k].time) \/ ~TimeInRange(c.days[k].time)

\* the body of one pass of SchedulerEngine._loop at the instant n:
\* _compute_next_run, then _check_trigger; an exception ends the thread
_loop_body(n) ==
  IF /\ HasBadTime(cfg)
     /\ Raised(IF gui.build = "src" THEN _compute_next_run_src(cfg, n)
               ELSE _compute_next_run(cfg, n))
  THEN loop' = "dead" /\ UNCHANGED <<timers, signals, emitted>>
  ELSE _check_trigger(n)

\* one pass of SchedulerEngine._loop after its wait: the clock has moved on
\* by at least the polling interval (more when the machine slept)
Tick(d, s) ==
  /\ loop = "running"
  /\ d \in Dates /\ s \in Secs
  /\ \/ d = now.date /\ s >= now.sec + POLL_INTERVAL
     \/ d = now.date + 1
  /\ now' = [date |-> d, sec |-> s]
  /\ _loop_body(now')
  /\ ret' = [NoCall EXCEPT !.n = ret.n]
  /\ UNCHANGED <<cfg, executed, forced, adv, gui, shut, marked, disk, lock, engine>>

(* ------------------- the polling thread, started and stopped ------------ *)
\* engine: SchedulerEngine._stop (the Event), _thread (0 is None, else the
\* number of the thread it names), every thread start() has created with
\* its place in _loop ("cond" at the while test, "body" inside the pass,
\* "wait" inside _stop.wait, "exited" once the function has returned), and
\* whether the GUI thread is inside the join of stop()
NoEngine == [stop |-> FALSE, thread |-> 0, threads |-> <<>>, joining |-> FALSE]

is_alive(e, i) == e.threads[i] # "exited"

\* variant: start() without the is_alive test
SchedulerEngine_start_unguarded ==
  /\ ~engine.joining
  /\ Len(engine.threads) < MaxThreads
  /\ engine' = [engine EXCEPT !.stop = FALSE,
                              !.threads = Append(@, "cond"),
                              !.thread = Len(engine.threads) + 1]
  /\ ret' = [op |-> "start", key |-> "", date |-> 0, val |-> TRUE, n |-> ret.n]
  /\ UNCHANGED <<cfg, now, timers, signals, emitted, executed, forced, adv, gui, shut, marked, loop, disk, lock>>

\* SchedulerEngine.start: nothing while the thread of _thread is alive; else
\* the flag is cleared and a new thread begins _loop.  ret.val tells whether
\* a thread was created
SchedulerEngine_start ==
  /\ ~engine.joining
  /\ IF engine.thread # 0 /\ is_alive(engine, engine.thread)
     THEN engine' = engine
     ELSE /\ Len(engine.threads) < MaxThreads
          /\ engine' = [engine EXCEPT !.stop = FALSE,
                                      !.threads = Append(@, "cond"),
                                      !.thread = Len(engine.threads) + 1]
  /\ ret' = [op |-> "start", key |-> "", date |-> 0,
             val |-> engine' # engine, n |-> ret.n]
  /\ UNCHANGED <<cfg, now, timers, signals, emitted, executed, forced, adv, gui, shut, marked, loop, disk, lock>>

\* SchedulerEngine.stop up to its join: the flag is set
SchedulerEngine_stop ==
  /\ ~engine.joining
  /\ engine' = [engine EXCEPT !.stop = TRUE, !.joining = engine.thread # 0]
  /\ ret' = [op |-> "stop", key |-> "", date |-> 0, val |-> "", n |-> ret.n]
  /\ UNCHANGED <<cfg, now, timers, signals, emitted, executed, forced, adv, gui, shut, marked, loop, disk, lock>>

\* _thread.join(timeout=1.5) returns: the thread has ended, or 1.5 s have
\* passed with the thread still inside _loop.  ret.val tells which
Thread_join ==
  /\ engine.joining
  /\ engine' = [engine EXCEPT !.joining = FALSE]
  /\ ret' = [op |-> "join", key |-> "", date |-> 0,
             val |-> IF is_alive(engine, engine.thread) THEN "timeout"
                     ELSE "ended",
             n |-> ret.n]
  /\ UNCHANGED <<cfg, now, timers, signals, emitted, executed, forced, adv, gui, shut, marked, loop, disk, lock>>

\* variant: the while test does not look at the flag
_loop_while_always(i) ==
  /\ i \in 1..Len(engine.threads) /\ engine.threads[i] = "cond"
  /\ engine' = [engine EXCEPT !.threads[i] = "body"]
  /\ UNCHANGED <<cfg, now, timers, signals, emitted, executed, forced, ret, adv, gui, shut, marked, loop, disk, lock>>

\* thread i at `while not self._stop.is_set()`
_loop_while(i) ==
  /\ i \in 1..Len(engine.threads) /\ engine.threads[i] = "cond"
  /\ engine' = [engine EXCEPT !.threads[i] = IF engine.stop THEN "exited"
                                             ELSE "body"]
  /\ UNCHANGED <<cfg, now, timers, signals, emitted, executed, forced, ret, adv, gui, shut, marked, loop, disk, lock>>

\* thread i runs the pass at the instant the clock shows
_loop_pass(i) ==
  /\ i \in 1..Len(engine.threads) /\ engine.threads[i] = "body"
  /\ _loop_body(now)
  /\ engine' = [engine EXCEPT !.threads[i] = IF loop' = "dead" THEN "exited"
                                             ELSE "wait"]
  /\ ret' = [NoCall EXCEPT !.n = ret.n]
  /\ UNCHANGED <<cfg, now, executed, forced, adv, gui, shut, marked, disk, lock>>

\* thread i inside self._stop.wait(15): it returns at once when the flag is
\* set, else after the polling interval (or later) has passed on the clock
_loop_wait(i, s) ==
  /\ i \in 1..Len(engine.threads) /\ engine.threads[i] = "wait"
  /\ IF engine.stop THEN now' = now
     ELSE s \in Secs /\ s >= now.sec + POLL_INTERVAL /\ now' = [now EXCEPT !.sec = s]
  /\ engine' = [engine EXCEPT !.threads[i] = "cond"]
  /\ UNCHANGED <<cfg, timers, signals, emitted, executed, forced, ret, adv, gui, shut, marked, loop, disk, lock>>

(* ------------------- playback and follow-up (GUI thread) ---------------- *)
\* gui: the build that runs (the packaged application or the script in
\* src/desktop_scheduler_qt.py) and MainWindow's _playback_mode,
\* _pending_follow_up (<<>> is None), _active_day_key ("" is None),
\* _ignore_playback_finished, and whether the player is playing.
\* shut: how many shutdown_remote and shutdown_local threads were started,
\* the slot of the last follow-up, and the calls to the outside (terminate
\* the target programs, start the player, the player stopping, the shutdown
\* threads) since the last firing sequence or preview began.
IdleWindow(build) ==
  [build |-> build, mode |-> "idle", pending |-> <<>>, active |-> "",
   ignore |-> FALSE, playing |-> FALSE]

NoShutdown == [remote |-> 0, local |-> 0, day_key |-> "", effects |-> <<>>]

\* a call to the outside is made
Effect(sh, e) == [sh EXCEPT !.effects = Append(@, e)]

\* the threads _on_playback_finished starts for the follow-up of slot k
Dispatch(sh, k, allow_remote, allow_local) ==
  [remote |-> sh.remote + (IF allow_remote THEN 1 ELSE 0),
   local |-> sh.local + (IF allow_local THEN 1 ELSE 0),
   day_key |-> k,
   effects |-> sh.effects \o (IF allow_remote THEN <<"remote">> ELSE <<>>)
                          \o (IF allow_local THEN <<"local">> ELSE <<>>)]

\* MainWindow._on_playback_finished of src/desktop_scheduler_qt.py: the
\* pending flags decide as they are
_on_playback_finished_src(g, sh) ==
  IF g.ignore THEN [gui |-> [g EXCEPT !.ignore = FALSE], shut |-> sh]
  ELSE IF g.mode = "schedule"
  THEN LET pend == IF g.pending = <<>> THEN <<FALSE, FALSE>> ELSE g.pending
       IN  [gui |-> [g EXCEPT !.pending = <<>>, !.mode = "idle", !.active = ""],
            shut |-> Dispatch(sh, g.active, pend[1], pend[2])]
  ELSE [gui |-> [g EXCEPT !.mode = "idle", !.active = ""], shut |-> sh]

\* MainWindow._on_playback_finished of the packaged application: the pending
\* flags are ANDed again with the current global toggles and slot flags
_on_playback_finished(g, sh, c) ==
  IF g.ignore THEN [gui |-> [g EXCEPT !.ignore = FALSE], shut |-> sh]
  ELSE IF g.mode = "schedule"
  THEN LET pend == IF g.pending = <<>> THEN <<FALSE, FALSE>> ELSE g.pending
           allow_remote ==
             IF g.active # ""
             THEN pend[1] /\ c.enable_remote_shutdown /\ c.days[g.active].allow_remote
             ELSE pend[1] /\ c.enable_remote_shutdown
           allow_local ==
             IF g.active # ""
             THEN pend[2] /\ c.enable_local_shutdown
                  /\ c.days[g.active].allow_local_shutdown
             ELSE pend[2] /\ c.enable_local_shutdown
       IN  [gui |-> [g EXCEPT !.pending = <<>>, !.mode = "idle", !.active = ""],
            shut |-> Dispatch(sh, g.active, allow_remote, allow_local)]
  ELSE [gui |-> [g EXCEPT !.mode = "idle", !.active = ""], shut |-> sh]

\* the playback_finished signal reaches the slot of the running build (a
\* direct connection: the slot runs inside the emit)
playback_finished(g, sh, c) ==
  IF g.build = "src" THEN _on_playback_finished_src(g, sh)
  ELSE _on_playback_finished(g, sh, c)

\* AudioService.stop: a playing player stops, _playback_changed emits
\* playback_finished
AudioService_stop(g, sh, c) ==
  IF g.playing
  THEN playback_finished([g EXCEPT !.playing = FALSE], Effect(sh, "stopped"), c)
  ELSE [gui |-> g, shut |-> sh]

\* variant: playback_finished is emitted as soon as the player has started
AudioService_play_eager(g, sh, c, path) ==
  IF path = NoAudio THEN playback_finished(g, Effect(sh, "skipped"), c)
  ELSE playback_finished(g, Effect(sh, "play"), c)

\* AudioService.play: an empty path finishes at once
AudioService_play(g, sh, c, path) ==
  IF path = NoAudio THEN playback_finished(g, Effect(sh, "skipped"), c)
  ELSE [gui |-> [g EXCEPT !.playing = TRUE], shut |-> Effect(sh, "play")]

\* MainWindow._on_schedule_triggered: the firing sequence (stop what plays,
\* note the follow-up flags, terminate the target programs, play the audio)
_on_schedule_triggered(day_key, audio_path, allow_remote, allow_local) ==
  LET g1 == IF gui.playing
            THEN [gui EXCEPT
                    !.pending = IF gui.mode = "schedule" THEN <<>> ELSE @,
                    !.ignore = IF gui.mode # "idle" THEN TRUE ELSE @]
            ELSE gui
      stopped == IF gui.playing THEN AudioService_stop(g1, shut, cfg)
                 ELSE [gui |-> g1, shut |-> shut]
      g2 == [stopped.gui EXCEPT !.active = day_key,
                                !.pending = <<allow_remote, allow_local>>,
                                !.mode = "schedule"]
      terminated == [stopped.shut EXCEPT !.effects = <<"terminate">>]
      played == AudioService_play(g2, terminated, cfg, audio_path)
  IN  /\ gui' = played.gui
      /\ shut' = played.shut
      /\ executed' = [executed EXCEPT ![now.date] = @ + 1]

\* the player reaches the end of the media: _playback_changed emits
\* playback_finished
PlaybackEnds ==
  /\ gui.playing
  /\ LET r == playback_finished([gui EXCEPT !.playing = FALSE],
                                Effect(shut, "stopped"), cfg)
     IN  gui' = r.gui /\ shut' = r.shut
  /\ UNCHANGED <<cfg, now, timers, signals, emitted, executed, forced, ret, adv, marked, loop, disk, lock, engine>>

\* the queued schedule_triggered signal reaches its slot on the GUI thread
DeliverSignal ==
  /\ signals # <<>>
  /\ signals' = Tail(signals)
  /\ _on_schedule_triggered(signals[1].day_key, signals[1].audio_path,
                            signals[1].allow_remote, signals[1].allow_local)
  /\ UNCHANGED <<cfg, now, timers, emitted, forced, ret, adv, marked, loop, disk, lock, engine>>

\* MainWindow._force_execute of src/desktop_scheduler_qt.py: both follow-up
\* flags are passed as True
_force_execute_src ==
  LET now_key == DayKeyOf(now.date)
      r == _resolve_audio(cfg, cfg.days[now_key])
  IN  /\ forced < MaxForced
      /\ timers' = timers \o (IF r.bump THEN <<BumpTimer("gui")>> ELSE <<>>)
      /\ Len(timers') <= MaxTimers
      /\ _on_schedule_triggered(now_key, r.path, TRUE, TRUE)
      /\ forced' = forced + 1
      /\ UNCHANGED <<cfg, now, signals, emitted, ret, adv, marked, loop, disk, lock, engine>>

\* MainWindow._force_execute of the packaged application
_force_execute ==
  LET now_key == DayKeyOf(now.date)
      day_cfg == cfg.days[now_key]
      r == _resolve_audio(cfg, day_cfg)
      allow_remote == cfg.enable_remote_shutdown /\ day_cfg.allow_remote
      allow_local == cfg.enable_local_shutdown /\ day_cfg.allow_local_shutdown
  IN  /\ forced < MaxForced
      /\ timers' = timers \o (IF r.bump THEN <<BumpTimer("gui")>> ELSE <<>>)
      /\ Len(timers') <= MaxTimers
      /\ _on_schedule_triggered(now_key, r.path, allow_remote, allow_local)
      /\ forced' = forced + 1
      /\ UNCHANGED <<cfg, now, signals, emitted, ret, adv, marked, loop, disk, lock, engine>>

\* a zero-delay timer fires: ConfigManager.update(updater)
RunDeferred(i) ==
  /\ Runnable(i)
  /\ cfg' = Updater(timers[i], cfg)
  /\ disk' = as_dict(cfg')
  /\ timers' = RemoveAt(timers, i)
  /\ adv' = IF timers[i].kind = "bump"
            THEN [adv EXCEPT !.count = @ + 1] ELSE adv
  /\ ret' = [NoCall EXCEPT !.n = ret.n]
  /\ marked' = IF timers[i].kind = "mark"
               THEN [marked EXCEPT ![timers[i].date] = @ + 1] ELSE marked
  /\ UNCHANGED <<now, signals, emitted, executed, forced, gui, shut, loop, lock, engine>>

(* ------------------------------ user edits ----------------------------- *)
PlaylistSet(c) == {c.playlist[i] : i \in 1..Len(c.playlist)}

\* variant: the request is not refused while a schedule run is playing
_on_preview_requested_always(path) ==
  /\ path \in PlaylistSet(cfg)
  /\ LET g1 == IF gui.playing THEN [gui EXCEPT !.ignore = TRUE] ELSE gui
         stopped == AudioService_stop(g1, shut, cfg)
         g2 == [stopped.gui EXCEPT !.pending = <<>>, !.active = "",
                                   !.mode = "preview"]
         cleared == [stopped.shut EXCEPT !.effects = <<>>]
         played == AudioService_play(g2, cleared, cfg, path)
     IN  gui' = played.gui /\ shut' = played.shut
  /\ UNCHANGED <<cfg, now, timers, signals, emitted, executed, forced, ret, adv, marked, loop, disk, lock, engine>>

\* MainWindow._on_preview_requested: the playlist panel asks for a preview of
\* one of its entries; refused while a schedule run is playing
_on_preview_requested(path) ==
  /\ path \in PlaylistSet(cfg)
  /\ gui.mode # "schedule"
  /\ LET g1 == IF gui.playing THEN [gui EXCEPT !.ignore = TRUE] ELSE gui
         stopped == AudioService_stop(g1, shut, cfg)
         g2 == [stopped.gui EXCEPT !.pending = <<>>, !.active = "",
                                   !.mode = "preview"]
         cleared == [stopped.shut EXCEPT !.effects = <<>>]
         played == AudioService_play(g2, cleared, cfg, path)
     IN  gui' = played.gui /\ shut' = played.shut
  /\ UNCHANGED <<cfg, now, timers, signals, emitted, executed, forced, ret, adv, marked, loop, disk, lock, engine>>

\* MainWindow._on_stop_preview
_on_stop_preview ==
  /\ gui.mode = "preview"
  /\ gui.playing
  /\ LET r == AudioService_stop(gui, shut, cfg)
     IN  gui' = r.gui /\ shut' = r.shut
  /\ UNCHANGED <<cfg, now, timers, signals, emitted, executed, forced, ret, adv, marked, loop, disk, lock, engine>>

\* variant: the card also clears the slot's last_ran
DayCard_persist_unstamp(k, en, auto, selected) ==
  /\ selected \in PlaylistSet(cfg) \cup {NoAudio}
  /\ cfg' = [cfg EXCEPT !.days[k] =
               [@ EXCEPT !.enabled = en,
                         !.auto_assign = auto,
                         !.audio_path = selected,
                         !.last_ran = NoDate]]
  /\ disk' = as_dict(cfg')
  /\ cfg' # cfg
  /\ ret' = [NoCall EXCEPT !.n = ret.n]
  /\ UNCHANGED <<now, timers, signals, emitted, executed, forced, adv, gui, shut, marked, loop, lock, engine>>

\* DayCard._persist: the card writes all its widgets back; the manual combo
\* offers the playlist entries and "none"
DayCard_persist(k, en, auto, selected) ==
  /\ selected \in PlaylistSet(cfg) \cup {NoAudio}
  /\ cfg' = [cfg EXCEPT !.days[k] =
               [@ EXCEPT !.enabled = en,
                         !.auto_assign = auto,
                         !.audio_path = selected]]
  /\ disk' = as_dict(cfg')
  /\ cfg' # cfg
  /\ ret' = [NoCall EXCEPT !.n = ret.n]
  /\ UNCHANGED <<now, timers, signals, emitted, executed, forced, adv, gui, shut, marked, loop, lock, engine>>

\* variant: the rotation is left where it was
_remove_selected_keep(p) ==
  /\ p \in PlaylistSet(cfg)
  /\ cfg' = [cfg EXCEPT !.playlist = SelectSeq(@, LAMBDA x : x # p)]
  /\ disk' = as_dict(cfg')
  /\ adv' = [base |-> cfg.playlist_rotation, count |-> 0]
  /\ ret' = [NoCall EXCEPT !.n = ret.n]
  /\ UNCHANGED <<now, timers, signals, emitted, executed, forced, gui, shut, marked, loop, lock, engine>>

\* PlaylistPanel._remove_selected with one row selected
_remove_selected(p) ==
  /\ p \in PlaylistSet(cfg)
  /\ cfg' = [cfg EXCEPT !.playlist = SelectSeq(@, LAMBDA x : x # p),
                        !.playlist_rotation = 0]
  /\ disk' = as_dict(cfg')
  /\ adv' = [base |-> 0, count |-> 0]
  /\ ret' = [NoCall EXCEPT !.n = ret.n]
  /\ UNCHANGED <<now, timers, signals, emitted, executed, forced, gui, shut, marked, loop, lock, engine>>

\* the updater of PlaylistPanel._add_files: every chosen path that is not in
\* the playlist yet is appended, in the order chosen
RECURSIVE AddFiles(_, _)
AddFiles(playlist, paths) ==
  IF paths = <<>> THEN playlist
  ELSE AddFiles(IF \E i \in 1..Len(playlist) : playlist[i] = Head(paths)
                THEN playlist ELSE Append(playlist, Head(paths)),
                Tail(paths))

\* variant: every chosen path is appended, present or not
_add_files_append(paths) ==
  /\ paths # <<>>
  /\ cfg' = [cfg EXCEPT !.playlist = @ \o paths]
  /\ disk' = as_dict(cfg')
  /\ adv' = [base |-> cfg.playlist_rotation, count |-> 0]
  /\ ret' = [NoCall EXCEPT !.n = ret.n]
  /\ UNCHANGED <<now, timers, signals, emitted, executed, forced, gui, shut, marked, loop, lock, engine>>

\* PlaylistPanel._add_files with the files chosen in the dialog
_add_files(paths) ==
  /\ paths # <<>>
  /\ cfg' = [cfg EXCEPT !.playlist = AddFiles(@, paths)]
  /\ disk' = as_dict(cfg')
  /\ adv' = [base |-> cfg.playlist_rotation, count |-> 0]
  /\ ret' = [NoCall EXCEPT !.n = ret.n]
  /\ UNCHANGED <<now, timers, signals, emitted, executed, forced, gui, shut, marked, loop, lock, engine>>

\* PlaylistPanel._move_selected: the current row (from 0) changes places with
\* its neighbour above (direction -1) or below (+1)
_move_selected(row, direction) ==
  LET target == row + direction
  IN  /\ row \in 0..(Len(cfg.playlist) - 1)
      /\ 0 <= target /\ target < Len(cfg.playlist)
      /\ cfg' = [cfg EXCEPT !.playlist =
                   [@ EXCEPT ![row + 1] = cfg.playlist[target + 1],
                             ![target + 1] = cfg.playlist[row + 1]]]
      /\ disk' = as_dict(cfg')
      /\ adv' = [base |-> cfg.playlist_rotation, count |-> 0]
      /\ ret' = [NoCall EXCEPT !.n = ret.n]
      /\ UNCHANGED <<now, timers, signals, emitted, executed, forced, gui, shut, marked, loop, lock, engine>>

\* HolidayPanel._add_single with the date picked in the calendar
_add_single(selected) ==
  /\ cfg' = [cfg EXCEPT !.holidays =
               IF In(isoformat(selected), @) THEN @
               ELSE Append(@, isoformat(selected))]
  /\ disk' = as_dict(cfg')
  /\ ret' = [NoCall EXCEPT !.n = ret.n]
  /\ UNCHANGED <<now, timers, signals, emitted, executed, forced, adv, gui, shut, marked, loop, lock, engine>>

\* HolidayPanel._context_remove on an item of the list of single dates whose
\* key is iso (HolidayPanel._remove_selected runs the same updater for each
\* selected item): every entry equal to the key goes
_context_remove_single(iso) ==
  /\ cfg' = [cfg EXCEPT !.holidays = SelectSeq(@, LAMBDA d : d # iso)]
  /\ disk' = as_dict(cfg')
  /\ ret' = [op |-> "_context_remove", key |-> "single", date |-> strptime(iso),
             val |-> [start |-> iso, end |-> iso], n |-> ret.n]
  /\ UNCHANGED <<now, timers, signals, emitted, executed, forced, adv, gui, shut, marked, loop, lock, engine>>

\* variant: a range goes when its start matches, whatever its end
_context_remove_range_bystart(start, end) ==
  /\ cfg' = [cfg EXCEPT !.holiday_ranges =
               SelectSeq(@, LAMBDA rng : ~(start # NoDate /\ end # NoDate
                                           /\ rng.start = start))]
  /\ disk' = as_dict(cfg')
  /\ ret' = [op |-> "_context_remove", key |-> "range", date |-> strptime(start),
             val |-> [start |-> start, end |-> end], n |-> ret.n]
  /\ UNCHANGED <<now, timers, signals, emitted, executed, forced, adv, gui, shut, marked, loop, lock, engine>>

\* HolidayPanel._context_remove on an item of the list of ranges whose key is
\* the pair (start, end), NoDate where the entry lacked the field: a range
\* goes when the key is complete and both its dates equal the key
_context_remove_range(start, end) ==
  /\ cfg' = [cfg EXCEPT !.holiday_ranges =
               SelectSeq(@, LAMBDA rng : ~(start # NoDate /\ end # NoDate
                                           /\ rng.start = start
                                           /\ rng.end = end))]
  /\ disk' = as_dict(cfg')
  /\ ret' = [op |-> "_context_remove", key |-> "range", date |-> strptime(start),
             val |-> [start |-> start, end |-> end], n |-> ret.n]
  /\ UNCHANGED <<now, timers, signals, emitted, executed, forced, adv, gui, shut, marked, loop, lock, engine>>

\* DateRangeDialog.accept: an end before the start is refused with a warning
\* and the dialog stays open
DateRangeDialog_accept(start, end) == ~(end < start)

\* HolidayPanel._add_range with the two dates picked in the dialog: the range
\* is appended once the dialog was accepted; ret notes the dates and whether
\* the dialog accepted them
_add_range(start, end) ==
  /\ Len(cfg.holiday_ranges) < MaxRanges
  /\ IF DateRangeDialog_accept(start, end)
     THEN /\ cfg' = [cfg EXCEPT !.holiday_ranges =
                       Append(@, [start |-> isoformat(start),
                                  end |-> isoformat(end)])]
          /\ disk' = as_dict(cfg')
     ELSE UNCHANGED <<cfg, disk>>
  /\ ret' = [op |-> "_add_range", key |-> "", date |-> start,
             val |-> [end |-> end,
                      accepted |-> DateRangeDialog_accept(start, end)],
             n |-> ret.n]
  /\ UNCHANGED <<now, timers, signals, emitted, executed, forced, adv, gui, shut, marked, loop, lock, engine>>

\* `ee < ss` on two ISO texts: the comparison of strings, character by
\* character, which for YYYY-MM-DD goes year, month, day
IsoLess(a, b) ==
  \/ a[1] < b[1]
  \/ a[1] = b[1] /\ a[2] < b[2]
  \/ a[1] = b[1] /\ a[2] = b[2] /\ a[3] < b[3]

\* add_holiday_range of the NiceGUI variant with the values of its two date
\* inputs (NoDate where nothing is picked): a missing date is refused with a
\* notification, an end before the start is exchanged with the start, and
\* the range is appended to holidays.ranges, kept here in holiday_ranges
add_holiday_range(s, e) ==
  /\ Len(cfg.holiday_ranges) < MaxRanges
  /\ IF s = NoDate \/ e = NoDate
     THEN UNCHANGED <<cfg, disk>>
     ELSE LET ss == IF IsoLess(e, s) THEN e ELSE s
              ee == IF IsoLess(e, s) THEN s ELSE e
          IN  /\ cfg' = [cfg EXCEPT !.holiday_ranges =
                           Append(@, [start |-> ss, end |-> ee])]
              /\ disk' = as_dict(cfg')
  /\ ret' = [op |-> "add_holiday_range", key |-> "", date |-> strptime(s),
             val |-> [end |-> strptime(e),
                      accepted |-> s # NoDate /\ e # NoDate],
             n |-> ret.n]
  /\ UNCHANGED <<now, timers, signals, emitted, executed, forced, adv, gui, shut, marked, loop, lock, engine>>

\* variant: the file is written after the first assignment already
_remove_selected_playlist_flush(p) ==
  /\ lock = <<>>
  /\ p \in PlaylistSet(cfg)
  /\ lock' = <<[before |-> cfg,
                after |-> [cfg EXCEPT !.playlist = SelectSeq(@, LAMBDA x : x # p),
                                      !.playlist_rotation = 0]]>>
  /\ cfg' = [cfg EXCEPT !.playlist = SelectSeq(@, LAMBDA x : x # p)]
  /\ disk' = as_dict(cfg')
  /\ UNCHANGED <<now, timers, signals, emitted, executed, forced, ret, adv, gui, shut, marked, loop, engine>>

\* the updater of PlaylistPanel._remove_selected statement by statement.
\* ConfigManager.update has taken the lock and the updater has run its first
\* assignment, to cfg.playlist, on the configuration object itself
_remove_selected_playlist(p) ==
  /\ lock = <<>>
  /\ p \in PlaylistSet(cfg)
  /\ lock' = <<[before |-> cfg,
                after |-> [cfg EXCEPT !.playlist = SelectSeq(@, LAMBDA x : x # p),
                                      !.playlist_rotation = 0]]>>
  /\ cfg' = [cfg EXCEPT !.playlist = SelectSeq(@, LAMBDA x : x # p)]
  /\ UNCHANGED <<now, timers, signals, emitted, executed, forced, ret, adv, gui, shut, marked, loop, disk, engine>>

\* the second assignment, to cfg.playlist_rotation; the file is written and
\* the lock released
_remove_selected_rotation ==
  /\ lock # <<>>
  /\ cfg' = [cfg EXCEPT !.playlist_rotation = 0]
  /\ disk' = as_dict(cfg')
  /\ lock' = <<>>
  /\ adv' = [base |-> 0, count |-> 0]
  /\ ret' = [NoCall EXCEPT !.n = ret.n]
  /\ UNCHANGED <<now, timers, signals, emitted, executed, forced, gui, shut, marked, loop, engine>>

\* SettingsPanel._persist: the two global shutdown toggles are written back
SettingsPanel_persist(remote, local) ==
  /\ cfg' = [cfg EXCEPT !.enable_remote_shutdown = remote,
                        !.enable_local_shutdown = local]
  /\ disk' = as_dict(cfg')
  /\ cfg' # cfg
  /\ ret' = [NoCall EXCEPT !.n = ret.n]
  /\ UNCHANGED <<now, timers, signals, emitted, executed, forced, adv, gui, shut, marked, loop, lock, engine>>

(* --------------------------- the trigger system ------------------------ *)
InitPlaylists == {<<>>, <<"a", "b">>}

\* nothing queued, nothing fired, nothing called yet
QuietThreads ==
  /\ timers = <<>>
  /\ signals = <<>>
  /\ emitted = [d \in Dates |-> 0]
  /\ marked = [d \in Dates |-> 0]
  /\ executed = [d \in Dates |-> 0]
  /\ forced = 0
  /\ ret = NoCall
  /\ adv = [base |-> cfg.playlist_rotation, count |-> 0]
  /\ lock = <<>>

\* start() has run once, its thread waits between two passes, and the file
\* holds what the memory holds
QuietEngine ==
  /\ QuietThreads
  /\ loop = "running"
  /\ engine = [NoEngine EXCEPT !.thread = 1, !.threads = <<"wait">>]
  /\ disk = as_dict(cfg)

Quiet ==
  /\ QuietEngine
  /\ gui = IdleWindow("packaging")
  /\ shut = NoShutdown

\* the application has loaded a snapshot on Monday 2024-01-01 shortly before
\* 09:00; the snapshot may list Tuesday 2024-01-02 and Monday 2024-01-08 as
\* holidays
Init ==
  /\ \E p \in InitPlaylists, hol \in {<<>>, <<isoformat(1), isoformat(7)>>} :
       \E r \in 0..Len(p) :
         cfg = [SchedulerConfig EXCEPT !.playlist = p,
                                       !.playlist_rotation = r,
                                       !.holidays = hol]
  /\ now = [date |-> 0, sec |-> FirstInstant]
  /\ Quiet

Next ==
  \/ \E d \in Dates, s \in Secs : Tick(d, s)
  \/ DeliverSignal
  \/ _force_execute
  \/ \E i \in 1..MaxTimers : RunDeferred(i)

Spec == Init /\ [][Next]_vars

(* ------------------- the holiday calendar, called directly -------------- *)
MaxQuery == 14       \* dates asked about: two weeks from Monday 2024-01-01

RECURSIVE SeqsUpTo(_, _)
SeqsUpTo(S, n) ==
  IF n = 0 THEN {<<>>}
  ELSE LET shorter == SeqsUpTo(S, n - 1)
       IN  shorter \cup {Append(q, x) : q \in shorter, x \in S}

\* a snapshot with single holidays and ranges as a settings file can hold
\* them: well-formed, end before start, a day that does not exist, a missing
\* "end"
InitHoliday ==
  /\ \E he \in BOOLEAN, sw \in BOOLEAN,
        hol \in {<<>>, <<isoformat(2)>>, <<isoformat(12)>>,
                 <<isoformat(2), isoformat(12)>>},
        rngs \in SeqsUpTo({[start |-> isoformat(1), end |-> isoformat(3)],
                           [start |-> isoformat(10), end |-> isoformat(9)],
                           [start |-> <<2024, 1, 32>>, end |-> <<2024, 2, 30>>],
                           [start |-> isoformat(0), end |-> NoDate]},
                          MaxRanges),
        k \in {"mon", "sat"}, en \in BOOLEAN,
        lr \in {NoDate, isoformat(0), isoformat(5)} :
       cfg = [SchedulerConfig EXCEPT !.holidays_enabled = he,
                                     !.auto_skip_weekends = sw,
                                     !.holidays = hol,
                                     !.holiday_ranges = rngs,
                                     !.days[k].enabled = en,
                                     !.days[k].last_ran = lr]
  /\ now = [date |-> 0, sec |-> FirstInstant]
  /\ Quiet

Call_is_holiday(d) ==
  /\ ret' = [op |-> "is_holiday", key |-> DayKeyOf(d), date |-> d,
             val |-> is_holiday(cfg, d), n |-> ret.n]
  /\ UNCHANGED <<cfg, now, timers, signals, emitted, executed, forced, adv, gui, shut, marked, loop, disk, lock, engine>>

Call_is_day_eligible(d) ==
  /\ ret' = [op |-> "is_day_eligible", key |-> DayKeyOf(d), date |-> d,
             val |-> is_day_eligible(cfg, cfg.days[DayKeyOf(d)], d), n |-> ret.n]
  /\ UNCHANGED <<cfg, now, timers, signals, emitted, executed, forced, adv, gui, shut, marked, loop, disk, lock, engine>>

NextHoliday ==
  \/ \E d \in 0..(MaxQuery - 1) : Call_is_holiday(d)
  \/ \E d \in 0..(MaxQuery - 1) : Call_is_day_eligible(d)

SpecHoliday == InitHoliday /\ [][NextHoliday]_vars

(* ------------------- the playlist rotation, called directly ------------- *)
MaxCalls == 3        \* _resolve_audio calls per behaviour

InitAudio ==
  /\ \E p \in {q \in SeqsUpTo(Tracks, MaxPlaylist) :
                \A i, j \in 1..Len(q) : i # j => q[i] # q[j]},
        r \in 0..MaxCursor,
        auto \in BOOLEAN, audio \in {NoAudio, "m"} :
       cfg = [SchedulerConfig EXCEPT !.playlist = p,
                                     !.playlist_rotation = r,
                                     !.days["mon"].auto_assign = auto,
                                     !.days["mon"].audio_path = audio]
  /\ now = [date |-> 0, sec |-> FirstInstant]
  /\ Quiet

\* a caller on the GUI thread runs SchedulerEngine._resolve_audio for slot k
Call_resolve_audio(k) ==
  LET r == _resolve_audio(cfg, cfg.days[k])
  IN  /\ ret.n < MaxCalls
      /\ timers' = timers \o (IF r.bump THEN <<BumpTimer("gui")>> ELSE <<>>)
      /\ Len(timers') <= MaxTimers
      /\ ret' = [op |-> "_resolve_audio", key |-> k, date |-> 0,
                 val |-> r.path, n |-> ret.n + 1]
      /\ UNCHANGED <<cfg, now, signals, emitted, executed, forced, adv, gui, shut, marked, loop, disk, lock, engine>>

NextAudio ==
  \/ \E k \in {"mon", "tue"} : Call_resolve_audio(k)
  \/ \E i \in 1..MaxTimers : RunDeferred(i)
  \/ \E p \in Tracks : _remove_selected(p)
  \/ \E en \in BOOLEAN, auto \in BOOLEAN, sel \in Tracks \cup {NoAudio} :
       DayCard_persist("mon", en, auto, sel)

SpecAudio == InitAudio /\ [][NextAudio]_vars

(* ------------- the trigger system with a manual Monday slot ------------- *)
\* the snapshot loaded on Monday 2024-01-01 has a Monday slot that is
\* auto-assigned or manual, with or without a manual audio file
InitFire ==
  /\ \E p \in InitPlaylists, auto \in BOOLEAN, audio \in {NoAudio, "m"} :
       cfg = [SchedulerConfig EXCEPT !.playlist = p,
                                     !.days["mon"].auto_assign = auto,
                                     !.days["mon"].audio_path = audio]
  /\ now = [date |-> 0, sec |-> FirstInstant]
  /\ Quiet

SpecFire == InitFire /\ [][Next]_vars

(* ------------------- the projection, called directly -------------------- *)
\* any instant of the clock; the Monday slot is auto-assigned or manual, with
\* or without a file, and may already be stamped for Monday 2024-01-01; Tuesday
\* to Friday are all enabled or all disabled
InitProjection ==
  /\ \E p \in {<<>>, <<"a", "b", "c">>}, hol \in {<<>>, <<isoformat(1), isoformat(7)>>},
        auto \in BOOLEAN, audio \in {NoAudio, "m"},
        lr \in {NoDate, isoformat(0)}, rest \in BOOLEAN :
       \E r \in 0..Len(p) :
         cfg = [SchedulerConfig EXCEPT
                  !.playlist = p,
                  !.playlist_rotation = r,
                  !.holidays = hol,
                  !.days = [k \in DayKeySet |->
                              IF k = "mon"
                              THEN [@[k] EXCEPT !.auto_assign = auto,
                                                !.audio_path = audio,
                                                !.last_ran = lr]
                              ELSE IF k \in {"tue", "wed", "thu", "fri"}
                              THEN [@[k] EXCEPT !.enabled = rest]
                              ELSE @[k]]]
  /\ \E d \in Dates, s \in Secs : now = [date |-> d, sec |-> s]
  /\ Quiet

\* variant: the rotation index the loop ends with is written back
Call_compute_upcoming_runs_persist(horizon_days, limit) ==
  LET runs == compute_upcoming_runs(cfg, now, horizon_days, limit)
  IN  /\ ret' = [op |-> "compute_upcoming_runs", key |-> "", date |-> now.date,
                 val |-> [horizon_days |-> horizon_days, limit |-> limit,
                          runs |-> runs],
                 n |-> ret.n]
      /\ cfg' = [cfg EXCEPT !.playlist_rotation = @ + Len(runs)]
      /\ disk' = as_dict(cfg')
      /\ UNCHANGED <<now, timers, signals, emitted, executed, forced, adv, gui, shut, marked, loop, lock, engine>>

Call_compute_upcoming_runs(horizon_days, limit) ==
  /\ ret' = [op |-> "compute_upcoming_runs", key |-> "", date |-> now.date,
             val |-> [horizon_days |-> horizon_days, limit |-> limit,
                      runs |-> compute_upcoming_runs(cfg, now, horizon_days, limit)],
             n |-> ret.n]
  /\ UNCHANGED <<cfg, now, timers, signals, emitted, executed, forced, adv, gui, shut, marked, loop, disk, lock, engine>>

Call_predict_playlist_for_day(target_day) ==
  /\ ret' = [op |-> "predict_playlist_for_day", key |-> target_day,
             date |-> now.date,
             val |-> predict_playlist_for_day(cfg, now, target_day), n |-> ret.n]
  /\ UNCHANGED <<cfg, now, timers, signals, emitted, executed, forced, adv, gui, shut, marked, loop, disk, lock, engine>>

NextProjection ==
  \/ \E a \in {<<28, 1>>, <<35, 14>>, <<28, NoLimit>>, <<14, 3>>, <<1, NoLimit>>} :
       Call_compute_upcoming_runs(a[1], a[2])
  \/ \E k \in {"mon", "tue", "sat"} : Call_predict_playlist_for_day(k)

SpecProjection == InitProjection /\ [][NextProjection]_vars

(* --------------- the trigger system with the preview cards -------------- *)
\* the global and per-slot shutdown flags of the snapshot: all on, or one off
ShutdownFlags ==
  {<<TRUE, TRUE, TRUE, TRUE>>, <<FALSE, TRUE, TRUE, TRUE>>,
   <<TRUE, FALSE, TRUE, TRUE>>, <<TRUE, TRUE, FALSE, TRUE>>,
   <<TRUE, TRUE, TRUE, FALSE>>}

InitPreview ==
  /\ \E f \in ShutdownFlags :
       cfg = [SchedulerConfig EXCEPT
                !.playlist = <<"a", "b">>,
                !.enable_remote_shutdown = f[1],
                !.enable_local_shutdown = f[3],
                !.days = [k \in DayKeySet |->
                            [@[k] EXCEPT !.allow_remote = f[2],
                                         !.allow_local_shutdown = f[4]]]]
  /\ now = [date |-> 0, sec |-> FirstInstant]
  /\ Quiet

\* the polling thread during Monday 2024-01-01 and the GUI thread with its
\* preview cards, the upcoming-runs table (AutoAssignmentPreviewCard.refresh)
\* and the hint of the Tuesday card (predict_playlist_for_day), and with the
\* global shutdown toggles of the settings panel
NextPreview ==
  \/ \E s \in Secs : Tick(now.date, s)
  \/ DeliverSignal
  \/ \E i \in 1..MaxTimers : RunDeferred(i)
  \/ Call_compute_upcoming_runs(35, 14)
  \/ Call_predict_playlist_for_day("tue")
  \/ \E remote \in BOOLEAN, local \in BOOLEAN : SettingsPanel_persist(remote, local)

SpecPreview == InitPreview /\ [][NextPreview]_vars

(* ------------- the firing sequence of src/desktop_scheduler_qt.py ------- *)
\* the script build on Monday 2024-01-01: the shutdown flags all on or one
\* off, the playlist empty (the sequence plays nothing and goes straight to
\* the follow-up) or not
InitShutdown ==
  /\ \E f \in ShutdownFlags, p \in InitPlaylists :
       cfg = [SchedulerConfig EXCEPT
                !.playlist = p,
                !.enable_remote_shutdown = f[1],
                !.enable_local_shutdown = f[3],
                !.days = [k \in DayKeySet |->
                            [@[k] EXCEPT !.allow_remote = f[2],
                                         !.allow_local_shutdown = f[4]]]]
  /\ now = [date |-> 0, sec |-> FirstInstant]
  /\ QuietEngine
  /\ gui = IdleWindow("src")
  /\ shut = NoShutdown

NextShutdown ==
  \/ \E s \in Secs : Tick(now.date, s)
  \/ DeliverSignal
  \/ _force_execute_src
  \/ \E i \in 1..MaxTimers : RunDeferred(i)
  \/ PlaybackEnds

SpecShutdown == InitShutdown /\ [][NextShutdown]_vars

(* ------------- the firing sequence of the packaged application --------- *)
\* Monday 2024-01-01: the shutdown flags all on or one off, the playlist
\* empty or not; the polling thread, the forced run, the preview buttons of
\* the playlist panel and the player reaching the end of its media
InitPlayback ==
  /\ \E f \in ShutdownFlags, p \in InitPlaylists :
       cfg = [SchedulerConfig EXCEPT
                !.playlist = p,
                !.enable_remote_shutdown = f[1],
                !.enable_local_shutdown = f[3],
                !.days = [k \in DayKeySet |->
                            [@[k] EXCEPT !.allow_remote = f[2],
                                         !.allow_local_shutdown = f[4]]]]
  /\ now = [date |-> 0, sec |-> FirstInstant]
  /\ Quiet

NextPlayback ==
  \/ \E s \in Secs : Tick(now.date, s)
  \/ DeliverSignal
  \/ _force_execute
  \/ \E i \in 1..MaxTimers : RunDeferred(i)
  \/ PlaybackEnds
  \/ \E path \in Tracks : _on_preview_requested(path)
  \/ _on_stop_preview

SpecPlayback == InitPlayback /\ [][NextPlayback]_vars

(* ------------- the trigger system with times from the settings file ---- *)
\* either build has loaded, on Monday 2024-01-01 shortly before 09:00, a
\* snapshot whose Monday and Tuesday slots carry a time as
\* DaySchedule.from_dict takes it from the file: "09:00", a text that is no
\* HH:MM, an hour of 25, a minute of 60
InitTime ==
  /\ \E mon \in {<<9, 0>>, <<>>, <<25, 0>>, <<9, 60>>},
        tue \in {<<9, 0>>, <<>>, <<25, 0>>, <<9, 60>>} :
       cfg = [SchedulerConfig EXCEPT !.playlist = <<"a", "b">>,
                                     !.days["mon"].time = mon,
                                     !.days["tue"].time = tue]
  /\ now = [date |-> 0, sec |-> FirstInstant]
  /\ QuietEngine
  /\ \E build \in {"packaging", "src"} : gui = IdleWindow(build)
  /\ shut = NoShutdown

NextTime ==
  \/ \E d \in Dates, s \in Secs : Tick(d, s)
  \/ DeliverSignal
  \/ \E i \in 1..MaxTimers : RunDeferred(i)
  \/ \E a \in {<<14, NoLimit>>, <<28, 1>>} : Call_compute_upcoming_runs(a[1], a[2])

SpecTime == InitTime /\ [][NextTime]_vars

(* ------------- the polling thread beside an update in progress --------- *)
\* Monday 2024-01-01 with a playlist of three; the polling thread reads
\* ConfigManager.config without the lock at any point of the updater the GUI
\* thread is running; the GUI thread itself, and every other update, waits
InitRace ==
  /\ \E r \in 0..2 :
       cfg = [SchedulerConfig EXCEPT !.playlist = <<"a", "b", "c">>,
                                     !.playlist_rotation = r]
  /\ now = [date |-> 0, sec |-> FirstInstant]
  /\ Quiet

NextRace ==
  \/ \E s \in Secs : Tick(now.date, s)
  \/ lock = <<>> /\ DeliverSignal
  \/ lock = <<>> /\ \E i \in 1..MaxTimers : RunDeferred(i)
  \/ \E p \in Tracks : _remove_selected_playlist(p)
  \/ _remove_selected_rotation

SpecRace == InitRace /\ [][NextRace]_vars

(* ------------- the trigger system with the editing panels -------------- *)
\* Monday 2024-01-01 with a playlist of two; the polling thread, the forced
\* run, and the user at the Monday card, the playlist panel, the calendar of
\* the holiday panel and the preview of a playlist entry
InitEdit ==
  /\ cfg = [SchedulerConfig EXCEPT !.playlist = <<"a", "b">>,
                                   !.playlist_rotation = 1]
  /\ now = [date |-> 0, sec |-> FirstInstant]
  /\ Quiet

NextEdit ==
  \/ \E s \in Secs : Tick(now.date, s)
  \/ DeliverSignal
  \/ _force_execute
  \/ \E i \in 1..MaxTimers : RunDeferred(i)
  \/ \E auto \in BOOLEAN : DayCard_persist("mon", TRUE, auto, NoAudio)
  \/ _add_files(<<"b", "b">>)
  \/ \E row \in 0..MaxPlaylist, direction \in {0 - 1, 1} : _move_selected(row, direction)
  \/ \E p \in Tracks : _remove_selected(p)
  \/ _add_single(1)
  \/ _on_preview_requested("a")

SpecEdit == InitEdit /\ [][NextEdit]_vars

(* ------------- the application from its start, file first -------------- *)
\* the files the application may find at its start
ConfigFiles ==
  {NoFile, NotJson, JsonNull, JsonNumber, JsonList,
   as_dict([SchedulerConfig EXCEPT !.playlist = <<"a", "b">>,
                                   !.playlist_rotation = 1]),
   [playlist |-> <<"a", "b", "c">>, playlist_rotation |-> 2],
   [playlist |-> <<"a", "b">>,
    days |-> [mon |-> [auto_assign |-> FALSE], sat |-> [time |-> <<9, 0>>]]],
   [auto_skip_weekends |-> FALSE, days |-> [sun |-> JsonList]],
   [days |-> [hol |-> [enabled |-> TRUE]]],
   [playlist |-> <<"a">>, days |-> JsonList],
   [playlist |-> <<"a">>, days |-> [mon |-> JsonNumber]]}

\* App.__init__: ConfigManager() loads the file, MainWindow starts the
\* polling thread; an exception of the load ends the process
App_init ==
  /\ loop = "unstarted"
  /\ LET loaded == _load(disk)
     IN  IF IsRaised(loaded)
         THEN /\ loop' = "crashed"
              /\ ret' = [op |-> "_load", key |-> "", date |-> 0,
                         val |-> loaded.raised, n |-> ret.n]
              /\ UNCHANGED <<cfg, disk, adv, engine>>
         ELSE /\ cfg' = loaded.config
              /\ disk' = loaded.file
              /\ loop' = "running"
              /\ engine' = [NoEngine EXCEPT !.thread = 1, !.threads = <<"wait">>]
              /\ adv' = [base |-> cfg'.playlist_rotation, count |-> 0]
              /\ ret' = [op |-> "_load", key |-> "", date |-> 0,
                         val |-> disk, n |-> ret.n]
  /\ UNCHANGED <<now, timers, signals, emitted, executed, forced, gui, shut, marked, lock>>

\* Monday 2024-01-01 shortly before 09:00, the process not yet started
InitLoad ==
  /\ cfg = SchedulerConfig
  /\ disk \in ConfigFiles
  /\ loop = "unstarted"
  /\ engine = NoEngine
  /\ now = [date |-> 0, sec |-> FirstInstant]
  /\ QuietThreads
  /\ gui = IdleWindow("packaging")
  /\ shut = NoShutdown

NextLoad ==
  \/ App_init
  \/ \E s \in Secs : Tick(now.date, s)
  \/ lock = <<>> /\ DeliverSignal
  \/ lock = <<>> /\ \E i \in 1..MaxTimers : RunDeferred(i)
  \/ loop = "running" /\ lock = <<>>
       /\ \E auto \in BOOLEAN : DayCard_persist("mon", TRUE, auto, NoAudio)
  \/ loop = "running" /\ \E p \in Tracks : _remove_selected_playlist(p)
  \/ _remove_selected_rotation

SpecLoad == InitLoad /\ [][NextLoad]_vars

(* ------------------ the playlist panel beside the loop ----------------- *)
\* what the file dialog of the playlist panel may return
AddChoices == {<<"a">>, <<"c", "c">>, <<"b", "c">>, <<"c", "a", "c">>}

\* Monday 2024-01-01 with a playlist of two and the rotation past its first
\* entry
InitPlaylist ==
  /\ \E r \in 1..2 :
       cfg = [SchedulerConfig EXCEPT !.playlist = <<"a", "b">>,
                                     !.playlist_rotation = r]
  /\ now = [date |-> 0, sec |-> FirstInstant]
  /\ Quiet

NextPlaylist ==
  \/ \E s \in Secs : Tick(now.date, s)
  \/ DeliverSignal
  \/ \E i \in 1..MaxTimers : RunDeferred(i)
  \/ \E paths \in AddChoices : _add_files(paths)
  \/ \E row \in 0..MaxPlaylist, direction \in {0 - 1, 1} : _move_selected(row, direction)
  \/ \E p \in Tracks : _remove_selected(p)

SpecPlaylist == InitPlaylist /\ [][NextPlaylist]_vars

(* ------------------- the range dialogs of the variants ----------------- *)
\* the days the calendars of the range dialogs are set to
RangeDays == {0, 1, 6}

\* no range stored yet; the window is the one of the packaged build, of
\* src/desktop_scheduler_qt.py or of the NiceGUI variant
InitRange ==
  /\ cfg = SchedulerConfig
  /\ now = [date |-> 0, sec |-> FirstInstant]
  /\ QuietEngine
  /\ \E build \in {"packaging", "src", "nicegui"} : gui = IdleWindow(build)
  /\ shut = NoShutdown

NextRange ==
  \/ gui.build # "nicegui"
       /\ \E start \in RangeDays, end \in RangeDays : _add_range(start, end)
  \/ gui.build = "nicegui"
       /\ \E s \in {isoformat(d) : d \in RangeDays} \cup {NoDate},
             e \in {isoformat(d) : d \in RangeDays} \cup {NoDate} :
            add_holiday_range(s, e)
  \/ \E d \in RangeDays : Call_is_holiday(d)

SpecRange == InitRange /\ [][NextRange]_vars

(* --------------------------- the holiday panel -------------------------- *)
\* the single dates and the ranges the panel starts with and is asked about
CalendarDates == {isoformat(1), isoformat(2)}
CalendarRanges ==
  {[start |-> isoformat(1), end |-> isoformat(3)],
   [start |-> isoformat(1), end |-> isoformat(4)],
   [start |-> isoformat(0), end |-> NoDate]}

\* the file held no single date, one, or the same one twice, and up to
\* MaxRanges ranges
InitCalendar ==
  /\ \E hol \in {<<>>, <<isoformat(1)>>, <<isoformat(1), isoformat(1)>>},
        rngs \in SeqsUpTo(CalendarRanges, MaxRanges) :
       cfg = [SchedulerConfig EXCEPT !.holidays = hol, !.holiday_ranges = rngs]
  /\ now = [date |-> 0, sec |-> FirstInstant]
  /\ Quiet

NextCalendar ==
  \/ \E selected \in {1, 2} : _add_single(selected)
  \/ \E iso \in CalendarDates : _context_remove_single(iso)
  \/ \E rng \in CalendarRanges : _context_remove_range(rng.start, rng.end)
  \/ _add_range(1, 3)
  \/ \E d \in {1, 2, 4} : Call_is_holiday(d)

SpecCalendar == InitCalendar /\ [][NextCalendar]_vars

(* ------------- the holiday test over ranges of any shape --------------- *)
\* is_holiday_date of the NiceGUI variant: the date as text, looked up in the
\* single dates, then compared as text with the two ends of every range that
\* has both
is_holiday_date(c, target) ==
  LET ds == isoformat(target)
  IN  \/ In(ds, c.holidays)
      \/ \E i \in 1..Len(c.holiday_ranges) :
           LET s == c.holiday_ranges[i].start
               e == c.holiday_ranges[i].end
           IN  /\ s # NoDate /\ e # NoDate
               /\ ~IsoLess(ds, s)
               /\ ~IsoLess(e, ds)

Call_is_holiday_date(d) ==
  /\ ret' = [op |-> "is_holiday_date", key |-> DayKeyOf(d), date |-> d,
             val |-> is_holiday_date(cfg, d), n |-> ret.n]
  /\ UNCHANGED <<cfg, now, timers, signals, emitted, executed, forced, adv, gui, shut, marked, loop, disk, lock, engine>>

\* ranges as a settings file can hold them: two well-formed ones, one whose
\* start is the day 0 of a month, one without end, one without start
InitShaped ==
  /\ \E rngs \in SeqsUpTo({[start |-> isoformat(1), end |-> isoformat(3)],
                            [start |-> isoformat(8), end |-> isoformat(9)],
                            [start |-> <<2024, 1, 0>>, end |-> isoformat(2)],
                            [start |-> isoformat(0), end |-> NoDate],
                            [start |-> NoDate, end |-> isoformat(5)]},
                           MaxRanges),
        sw \in BOOLEAN :
       cfg = [SchedulerConfig EXCEPT !.holiday_ranges = rngs,
                                     !.auto_skip_weekends = sw]
  /\ now = [date |-> 0, sec |-> FirstInstant]
  /\ QuietEngine
  /\ \E build \in {"packaging", "nicegui"} : gui = IdleWindow(build)
  /\ shut = NoShutdown

NextShaped ==
  \/ gui.build # "nicegui" /\ \E d \in 0..(MaxQuery - 1) : Call_is_holiday(d)
  \/ gui.build = "nicegui" /\ \E d \in 0..(MaxQuery - 1) : Call_is_holiday_date(d)

SpecShaped == InitShaped /\ [][NextShaped]_vars

(* --------------- the cursor under firings and playlist edits ----------- *)
\* the snapshot holds no, one or two files and a cursor that names one of
\* them (0 for no file)
InitCursor ==
  /\ \E p \in {<<>>, <<"a">>, <<"a", "b">>} :
       \E r \in 0..(Max(1, Len(p)) - 1) :
         cfg = [SchedulerConfig EXCEPT !.playlist = p,
                                       !.playlist_rotation = r]
  /\ now = [date |-> 0, sec |-> FirstInstant]
  /\ Quiet

NextCursor ==
  \/ \E s \in Secs : Tick(now.date, s)
  \/ _force_execute
  \/ \E i \in 1..MaxTimers : RunDeferred(i)
  \/ \E paths \in AddChoices : _add_files(paths)
  \/ \E row \in 0..MaxPlaylist, direction \in {0 - 1, 1} : _move_selected(row, direction)
  \/ \E p \in Tracks : _remove_selected(p)

SpecCursor == InitCursor /\ [][NextCursor]_vars

(* ------------------- one morning of regular polling -------------------- *)
\* the application runs on Monday 2024-01-01; the polling thread last read
\* the clock between 08:59:45 and 08:59:59; the Monday slot may be disabled,
\* stamped with today, on a listed holiday, or carry an unreadable time
InitCadence ==
  /\ \E p \in InitPlaylists, en \in BOOLEAN, sw \in BOOLEAN,
        hol \in {<<>>, <<isoformat(0)>>}, t \in {<<9, 0>>, <<>>},
        stamp \in {NoDate, isoformat(0)} :
       cfg = [SchedulerConfig EXCEPT !.playlist = p,
                                     !.holidays_enabled = sw,
                                     !.holidays = hol,
                                     !.days["mon"].enabled = en,
                                     !.days["mon"].time = t,
                                     !.days["mon"].last_ran = stamp]
  /\ \E phase \in 0..(POLL_INTERVAL - 1) :
       now = [date |-> 0, sec |-> FirstInstant + phase]
  /\ Quiet

\* one pass of SchedulerEngine._loop exactly one polling interval after
\* the pass before it: _stop.wait(15) timed out and the pass took no time
Poll ==
  /\ loop = "running"
  /\ now.sec + POLL_INTERVAL < FirstInstant + POLL_INTERVAL * (MaxStep + 1)
  /\ now' = [now EXCEPT !.sec = @ + POLL_INTERVAL]
  /\ _loop_body(now')
  /\ ret' = [NoCall EXCEPT !.n = ret.n]
  /\ UNCHANGED <<cfg, executed, forced, adv, gui, shut, marked, disk, lock, engine>>

NextCadence ==
  \/ Poll
  \/ DeliverSignal
  \/ \E i \in 1..MaxTimers : RunDeferred(i)

SpecCadence == InitCadence /\ [][NextCadence]_vars

(* ---------------- start() and stop() beside the polling ---------------- *)
\* MainWindow.__init__ has called start() on Monday 2024-01-01 shortly
\* before 09:00 and the thread waits between two passes
InitEngine ==
  /\ \E p \in InitPlaylists : cfg = [SchedulerConfig EXCEPT !.playlist = p]
  /\ now = [date |-> 0, sec |-> FirstInstant]
  /\ Quiet

\* the GUI thread calls start() and stop() in any order and runs the
\* zero-delay timers while it is not inside a join; the threads start()
\* has created take their steps in any order
NextEngine ==
  \/ SchedulerEngine_start
  \/ SchedulerEngine_stop
  \/ Thread_join
  \/ \E i \in 1..MaxThreads : _loop_while(i)
  \/ \E i \in 1..MaxThreads : _loop_pass(i)
  \/ \E i \in 1..MaxThreads, s \in Secs : _loop_wait(i, s)
  \/ ~engine.joining /\ \E i \in 1..MaxTimers : RunDeferred(i)

SpecEngine == InitEngine /\ [][NextEngine]_vars

\* fair scheduling: a thread that can take its next step takes it, a join
\* returns after 1.5 s at the latest, and the event loop of the GUI thread
\* runs a due timer between two other events
SpecEngineFair ==
  /\ SpecEngine
  /\ \A i \in 1..MaxThreads :
       /\ WF_vars(_loop_while(i))
       /\ WF_vars(_loop_pass(i))
       /\ WF_vars(\E s \in Secs : _loop_wait(i, s))
  /\ WF_vars(Thread_join)
  /\ SF_vars(~engine.joining /\ \E i \in 1..MaxTimers : RunDeferred(i))

(* ------------- the weekly mode of the NiceGUI variant ------------------- *)
\* The configuration of the NiceGUI variant in the fields of cfg:
\* schedule[d].enabled, .time and .file are days[d].enabled, .time and
\* .audio_path; mode 'fixed' is auto_assign = FALSE; weekly.base_index is
\* playlist_rotation; holidays.enabled, .dates and .ranges are
\* holidays_enabled, holidays and holiday_ranges.

\* enabled_days: the enabled days in the order of DAYS, or all seven when
\* none is enabled
enabled_days(c) ==
  LET ed == SelectSeq(DAY_KEYS, LAMBDA d : c.days[d].enabled)
  IN  IF ed # <<>> THEN ed ELSE DAY_KEYS

\* enabled_position: ed.index(dkey), or DAYS.index(dkey) for a day that is
\* not in ed
enabled_position(c, dkey) ==
  LET ed == enabled_days(c)
  IN  IF In(dkey, ed) THEN (CHOOSE i \in 1..Len(ed) : ed[i] = dkey) - 1
      ELSE (CHOOSE i \in 1..Len(DAY_KEYS) : DAY_KEYS[i] = dkey) - 1

\* variant: the position is counted over all seven days
weekly_mapped_index_alldays(c, dkey, playlist_len) ==
  IF playlist_len <= 0 THEN 0 - 1
  ELSE LET base == c.playlist_rotation % playlist_len
           pos == (CHOOSE i \in 1..Len(DAY_KEYS) : DAY_KEYS[i] = dkey) - 1
       IN  (base + pos) % playlist_len

\* weekly_mapped_index; None is -1
weekly_mapped_index(c, dkey, playlist_len) ==
  IF playlist_len <= 0 THEN 0 - 1
  ELSE LET base == c.playlist_rotation % playlist_len
           pos == enabled_position(c, dkey)
       IN  (base + pos) % playlist_len

compute_play_path_for_day(c, dkey) ==
  LET dconf == c.days[dkey]
      pl == c.playlist
      idx == weekly_mapped_index(c, dkey, Len(pl))
  IN  IF ~dconf.auto_assign THEN dconf.audio_path
      ELSE IF pl = <<>> THEN NoAudio
      ELSE IF idx # 0 - 1 THEN pl[idx + 1] ELSE NoAudio

\* compute_upcoming_events at the instant of the clock: the first `limit`
\* days of the look-ahead that are no holiday, enabled and not yet past,
\* each with the path compute_play_path_for_day gives
compute_upcoming_events(limit) ==
  LET lookahead_days == Max(limit * 7, 21)
      kept == SelectSeq([i \in 1..lookahead_days |-> i - 1],
                LAMBDA offset :
                  LET d == now.date + offset
                      dconf == cfg.days[DayKeyOf(d)]
                  IN  /\ ~(cfg.holidays_enabled /\ is_holiday_date(cfg, d))
                      /\ dconf.enabled
                      /\ ~(Instant([date |-> d, sec |-> TimeSecs(dconf.time)])
                             <= Instant(now)))
      events == [i \in 1..(IF Len(kept) < limit THEN Len(kept) ELSE limit) |->
                   [date |-> now.date + kept[i],
                    dkey |-> DayKeyOf(now.date + kept[i]),
                    fixed |-> ~cfg.days[DayKeyOf(now.date + kept[i])].auto_assign,
                    path |-> compute_play_path_for_day(
                               cfg, DayKeyOf(now.date + kept[i]))]]
  IN  /\ ret' = [op |-> "compute_upcoming_events", key |-> "", date |-> now.date,
                 val |-> events, n |-> ret.n]
      /\ UNCHANGED <<cfg, now, timers, signals, emitted, executed, forced, adv, gui, shut, marked, loop, disk, lock, engine>>

\* one pass of scheduler_loop at the second s of the day, after a sleep of
\* 15 s or more: a holiday or a disabled day is passed over; in the minute of
\* the slot the path is resolved, and if the file exists it is played, the
\* shutdown follows and the function returns.  ret.val is the path resolved
\* and whether it was played
scheduler_loop(s, exists) ==
  LET dkey == DayKeyOf(now.date)
      dconf == cfg.days[dkey]
      pl == cfg.playlist
      idx == weekly_mapped_index(cfg, dkey, Len(pl))
      play_path == IF ~dconf.auto_assign THEN dconf.audio_path
                   ELSE IF pl # <<>> /\ idx # 0 - 1 THEN pl[idx + 1]
                   ELSE NoAudio
      played == play_path # NoAudio /\ exists
  IN  /\ loop = "running"
      /\ s \in Secs /\ s >= now.sec + POLL_INTERVAL
      /\ now' = [now EXCEPT !.sec = s]
      /\ IF \/ cfg.holidays_enabled /\ is_holiday_date(cfg, now.date)
            \/ ~dconf.enabled
            \/ s \div 60 # TimeSecs(dconf.time) \div 60
         THEN /\ ret' = [NoCall EXCEPT !.n = ret.n]
              /\ loop' = loop
         ELSE /\ ret' = [op |-> "scheduler_loop", key |-> dkey,
                         date |-> now.date,
                         val |-> [path |-> play_path, played |-> played],
                         n |-> ret.n]
              /\ loop' = IF played THEN "returned" ELSE loop
      /\ UNCHANGED <<cfg, timers, signals, emitted, executed, forced, adv, gui, shut, marked, disk, lock, engine>>

\* any day of the week of Monday 2024-01-01 shortly before 09:00; the
\* enabled days are Monday to Friday, all, none, or one of three other
\* sets; the playlist holds no, two or three files; the base index is -1, 0,
\* 1 or beyond the playlist; today's slot is in mode 'weekly' or 'fixed';
\* Tuesday 2024-01-02 may be a holiday
InitWeekly ==
  /\ \E on \in {{"mon", "tue", "wed", "thu", "fri"}, DayKeySet, {},
                 {"tue", "thu", "sat"}, {"sun"}, {"mon", "wed", "fri", "sun"}},
        p \in {<<>>, <<"a", "b">>, <<"a", "b", "c">>},
        base \in {0 - 1, 0, 1, MaxCursor},
        today \in 0..6, weekly \in BOOLEAN,
        hol \in {<<>>, <<isoformat(1)>>} :
       /\ cfg = [SchedulerConfig EXCEPT
                   !.playlist = p,
                   !.playlist_rotation = base,
                   !.holidays = hol,
                   !.days = [k \in DayKeySet |->
                               [@[k] EXCEPT
                                  !.enabled = k \in on,
                                  !.auto_assign = weekly \/ k # DayKeyOf(today),
                                  !.audio_path = IF weekly \/ k # DayKeyOf(today)
                                                 THEN NoAudio ELSE "c"]]]
       /\ now = [date |-> today, sec |-> FirstInstant]
  /\ QuietEngine
  /\ gui = IdleWindow("nicegui")
  /\ shut = NoShutdown

\* the loop thread and the table of upcoming events (refresh_upcoming_table)
NextWeekly ==
  \/ \E s \in Secs, exists \in BOOLEAN : scheduler_loop(s, exists)
  \/ compute_upcoming_events(8)

SpecWeekly == InitWeekly /\ [][NextWeekly]_vars

(* ------------- the trigger loop with a running event loop --------------- *)
\* one day of polling, Monday 2024-01-01 or Tuesday 2024-01-02
InitLoop ==
  /\ \E p \in InitPlaylists : cfg = [SchedulerConfig EXCEPT !.playlist = p]
  /\ \E d \in Dates : now = [date |-> d, sec |-> FirstInstant]
  /\ Quiet

NextLoop ==
  \/ \E s \in Secs : Tick(now.date, s)
  \/ DeliverSignal
  \/ _force_execute
  \/ \E i \in 1..MaxTimers : RunDeferred(i)

\* the event loop keeps running: a zero-delay timer that is due runs
SpecLoop ==
  /\ InitLoop
  /\ [][NextLoop]_vars
  /\ WF_vars(\E i \in 1..MaxTimers : RunDeferred(i))

(* =============================== claims ================================ *)
\* the holiday rule and the eligibility rule as the specification words them
HolidayRule(c, d) ==
  \/ c.auto_skip_weekends /\ weekday(d) \in {5, 6}
  \/ In(isoformat(d), c.holidays)
  \/ \E i \in 1..Len(c.holiday_ranges) :
       LET a == strptime(c.holiday_ranges[i].start)
           b == strptime(c.holiday_ranges[i].end)
       IN  a >= 0 /\ b >= 0 /\ a <= d /\ d <= b

EligibleRule(c, slot, d) ==
  /\ slot.enabled
  /\ ~(c.holidays_enabled /\ HolidayRule(c, d))
  /\ slot.last_ran # isoformat(d)

TargetSecs(slot) == slot.time[1] * 3600 + slot.time[2] * 60

\* C1: for every slot and date, at most one fire event (schedule_triggered)
\* is emitted, whatever the poll ticks and however late the deferred last_ran
\* stamp is applied.
C1_AtMostOneFirePerDate == \A d \in Dates : emitted[d] <= 1

\* C2: once the firing sequence has run on a date, a forced run or a scheduled
\* firing on the same date does not run it a second time.
C2_ForcedRunIdempotent ==
  forced > 0 => \A d \in Dates : executed[d] <= 1

\* C3: a poll emits a fire event only for today's slot, only if that slot is
\* eligible today, and only at an instant with 0 <= now - target <= 30 s; so a
\* window without a poll is never caught up later.
C3_FireOnlyInWindow ==
  [][\A d \in Dates :
       emitted'[d] > emitted[d] =>
         /\ d = now'.date
         /\ EligibleRule(cfg, cfg.days[DayKeyOf(d)], d)
         /\ 0 <= now'.sec - TargetSecs(cfg.days[DayKeyOf(d)])
         /\ now'.sec - TargetSecs(cfg.days[DayKeyOf(d)]) <= 30]_vars

\* a fire event emitted by the poll at exactly target + 30 s
C3_Witness ==
  /\ emitted[0] = 1
  /\ now = [date |-> 0, sec |-> TargetSecs(cfg.days["mon"]) + 30]
  /\ cfg.days["mon"].last_ran = NoDate
  /\ \E i \in 1..Len(timers) : timers[i] = MarkTimer("poll", "mon", 0)

\* C4: is_eligible(day_key, date) is true iff the slot is enabled, and not
\* (holidays enabled and the date is a holiday), and last_ran is not the date.
C4_EligibleIff ==
  ret.op = "is_day_eligible" =>
    (ret.val <=> EligibleRule(cfg, cfg.days[ret.key], ret.date))

\* an enabled Saturday slot asked about a Saturday with the master switch off
\* and weekend skipping on: eligible
C4_Witness ==
  /\ ret.op = "is_day_eligible" /\ ret.date = 5 /\ ret.val = TRUE
  /\ cfg.auto_skip_weekends /\ ~cfg.holidays_enabled

\* the deferred update at position i of the queue is a _mark and runs in
\* this step
MarkApplied(i) ==
  /\ Len(timers') < Len(timers)
  /\ timers[i].kind = "mark"
  /\ Runnable(i)
  /\ timers' = RemoveAt(timers, i)

\* C5: once mark_fired(day_key, d) is applied the slot is not eligible on d,
\* and it is eligible again on d + 7 (enabled, d + 7 no holiday): the marker
\* blocks the date, not the weekday.
C5_MarkBlocksOnlyTheDate ==
  [][\A i \in 1..Len(timers) :
       MarkApplied(i) =>
         LET k == timers[i].day_key
             d == timers[i].date
         IN  /\ ~is_day_eligible(cfg', cfg'.days[k], d)
             /\ (cfg'.days[k].enabled /\ ~HolidayRule(cfg', d + 7)
                   => is_day_eligible(cfg', cfg'.days[k], d + 7))]_vars

\* Monday 2024-01-01 is stamped and Monday 2024-01-08 is eligible
C5_Witness ==
  /\ cfg.days["mon"].last_ran = isoformat(0)
  /\ emitted[0] >= 1
  /\ ~is_day_eligible(cfg, cfg.days["mon"], 0)
  /\ is_day_eligible(cfg, cfg.days["mon"], 7)

\* C6 as claimed: is_holiday is true iff the master switch is on AND the date
\* is a skipped weekend day, a single date or inside a range.
C6_HolidayIffWithSwitch ==
  ret.op = "is_holiday" =>
    (ret.val <=> (cfg.holidays_enabled /\ HolidayRule(cfg, ret.date)))

\* C6 amended: is_holiday is true iff the date is a skipped weekend day, a
\* single date or inside a well-formed inclusive range, whatever the master
\* switch says; the switch is applied by is_day_eligible (C4).
C6_HolidayIff ==
  ret.op = "is_holiday" => (ret.val <=> HolidayRule(cfg, ret.date))

\* is_holiday answers true on the last day of a range with the switch off
C6_Witness ==
  /\ ret.op = "is_holiday" /\ ret.date = 3 /\ ret.val = TRUE
  /\ ~cfg.holidays_enabled /\ cfg.holidays = <<>>

\* C7: with auto_skip_weekends every Saturday and Sunday is a holiday whatever
\* the single dates and ranges hold; every single date is a holiday whatever
\* the ranges hold, malformed ones included.
C7_HolidayPrecedence ==
  ret.op = "is_holiday" =>
    /\ (cfg.auto_skip_weekends /\ weekday(ret.date) \in {5, 6} => ret.val = TRUE)
    /\ (In(isoformat(ret.date), cfg.holidays) => ret.val = TRUE)

\* a Saturday is asked about with weekend skipping on and a malformed range
\* first in the list
C7_Witness ==
  /\ ret.op = "is_holiday" /\ ret.date = 5 /\ ret.val = TRUE
  /\ cfg.auto_skip_weekends /\ cfg.holidays = <<>>
  /\ Len(cfg.holiday_ranges) >= 1 /\ strptime(cfg.holiday_ranges[1].end) < 0

\* what the specification says resolve_audio returns
AudioRule(c, slot) ==
  IF ~slot.auto_assign THEN slot.audio_path
  ELSE IF c.playlist = <<>> THEN slot.audio_path
  ELSE c.playlist[(c.playlist_rotation % Len(c.playlist)) + 1]

\* C8: resolve_audio returns manual_audio_ref when auto_assign is false or the
\* playlist is empty, and items[cursor mod len] otherwise; never a playlist
\* track for a slot whose auto_assign is false.
C8_ResolveAudioContract ==
  [][ret'.n # ret.n /\ ret'.op = "_resolve_audio" =>
       ret'.val = AudioRule(cfg, cfg.days[ret'.key])]_vars

\* C9 as claimed: resolve_audio is a pure peek; once the pending deferred
\* updates have run, rotation_cursor is what it was before the calls.
C9_PurePeek ==
  timers = <<>> => cfg.playlist_rotation = adv.base

\* C9 amended: _resolve_audio leaves rotation_cursor unchanged at the time of
\* the call and, called again with no deferred update run in between, returns
\* the same AudioRef; but every call that draws from the playlist schedules
\* one deferred advance, and a call that returns the manual ref schedules none.
C9_PeekSchedulesAdvance ==
  [][ret'.n # ret.n /\ ret'.op = "_resolve_audio" =>
       /\ cfg' = cfg
       /\ (ret.op = "_resolve_audio" /\ ret.key = ret'.key => ret'.val = ret.val)
       /\ LET slot == cfg.days[ret'.key]
              draws == cfg.playlist # <<>>
                       /\ (slot.auto_assign \/ slot.audio_path = NoAudio)
          IN  IF draws THEN timers' = Append(timers, BumpTimer("gui"))
              ELSE timers' = timers]_vars

\* two calls in a row for the auto-assigned Tuesday slot returned the same
\* track and left two advances pending
C9_Witness ==
  /\ ret.op = "_resolve_audio" /\ ret.key = "tue" /\ ret.n = 2
  /\ ret.val \in Tracks
  /\ Len(timers) = 2
  /\ cfg.playlist_rotation = adv.base /\ adv.count = 0

\* C10: K advances on a playlist of fixed length L >= 1 from cursor c < L give
\* (c + K) mod L; with an empty playlist the cursor is 0 after any advance.
C10_AdvanceArithmetic ==
  LET L == Len(cfg.playlist)
  IN  /\ (L >= 1 /\ adv.base < L =>
            cfg.playlist_rotation = (adv.base + adv.count) % L)
      /\ (L = 0 /\ adv.count >= 1 => cfg.playlist_rotation = 0)

\* two advances on a two-track playlist wrapped the cursor back to its start
C10_Witness ==
  /\ Len(cfg.playlist) = 2 /\ adv.count = 2 /\ adv.base = 1
  /\ cfg.playlist_rotation = 1

\* the deferred _bump updates waiting in a queue
Bumps(q) == Len(SelectSeq(q, LAMBDA t : t.kind = "bump"))

\* C11: each firing, scheduled or forced, advances rotation_cursor exactly
\* once if the fired slot is auto-assigned and the playlist gave a track, and
\* not at all if the slot is manual (with or without a manual file) or the
\* playlist is empty.  Scheduling the deferred _bump counts as the advance.
C11_AdvanceOncePerFiring ==
  [][(emitted' # emitted \/ forced' # forced) =>
       LET slot == cfg.days[DayKeyOf(now'.date)]
           scheduled == Bumps(timers') - Bumps(timers)
       IN  IF slot.auto_assign /\ cfg.playlist # <<>>
           THEN scheduled = 1 ELSE scheduled = 0]_vars

\* the audio of the fire events when the runs from position i on are fired in
\* order through _check_trigger, each at its own `when`, the deferred _bump
\* and _mark of a firing applied before the next one
RECURSIVE FireInOrder(_, _, _)
FireInOrder(c, runs, i) ==
  IF i > Len(runs) THEN <<>>
  ELSE LET run == runs[i]
           day_cfg == c.days[run.day_key]
           r == _resolve_audio(c, day_cfg)
           c2 == _mark(IF r.bump THEN _bump(c) ELSE c, run.day_key, run.when.date)
       IN  IF is_day_eligible(c, day_cfg, run.when.date)
              /\ InWindow(run.when.sec, TimeSecs(day_cfg.time))
           THEN <<r.path>> \o FireInOrder(c2, runs, i + 1)
           ELSE FireInOrder(c, runs, i + 1)

AudioOf(runs) == [i \in 1..Len(runs) |-> runs[i].audio_path]

\* C12: for any mix of auto-assigned and manual slots, with or without a
\* manual file, the audio compute_upcoming_runs gives its projected runs is,
\* run for run, the audio of the fire events when those runs are fired in
\* order with the cursor advances applied between them.
C12_ProjectionMatchesFiring ==
  ret.op = "compute_upcoming_runs" =>
    AudioOf(ret.val.runs) = FireInOrder(cfg, ret.val.runs, 1)

\* a preview card has just called the projection
PreviewStep ==
  /\ ret' # ret
  /\ ret'.op \in {"compute_upcoming_runs", "predict_playlist_for_day"}

\* what a poll at day d, second s decides on configuration c: whether it
\* fires and with which track
Decision(c, d, s) ==
  LET day_cfg == c.days[DayKeyOf(d)]
  IN  IF is_day_eligible(c, day_cfg, d) /\ InWindow(s, TimeSecs(day_cfg.time))
      THEN <<TRUE, _resolve_audio(c, day_cfg).path>>
      ELSE <<FALSE, NoAudio>>

\* C13: compute_upcoming_runs and predict_playlist_for_day leave the rotation
\* cursor, every slot's last_ran, the playlist and the holiday calendar
\* unchanged and schedule no deferred update; called any number of times
\* between poll ticks they change neither the configuration nor what any later
\* poll fires and with which track.
C13_ProjectionReadOnly ==
  [][PreviewStep =>
       /\ cfg'.playlist_rotation = cfg.playlist_rotation
       /\ \A k \in DayKeySet : cfg'.days[k].last_ran = cfg.days[k].last_ran
       /\ cfg'.playlist = cfg.playlist
       /\ cfg'.holidays = cfg.holidays
       /\ cfg'.holiday_ranges = cfg.holiday_ranges
       /\ cfg' = cfg
       /\ timers' = timers /\ signals' = signals /\ emitted' = emitted
       /\ \A d \in Dates, s \in Secs : Decision(cfg', d, s) = Decision(cfg, d, s)]_vars

\* the upcoming-runs table was refreshed after Monday's slot fired, the
\* deferred _bump and _mark of that firing still pending: 14 runs, the first
\* on Tuesday
C13_Witness ==
  /\ ret.op = "compute_upcoming_runs"
  /\ Len(ret.val.runs) = 14
  /\ ret.val.runs[1].when.date = 1
  /\ emitted[0] = 1
  /\ Len(timers) = 2
  /\ cfg.days["mon"].last_ran = NoDate

\* the first k entries of a sequence
Prefix(q, k) == SubSeq(q, 1, IF k < Len(q) THEN k ELSE Len(q))

C15_RunsEligibleAndFuture ==
  ret.op = "compute_upcoming_runs" =>
    \A i \in 1..Len(ret.val.runs) :
      LET run == ret.val.runs[i]
      IN  /\ is_day_eligible(cfg, cfg.days[run.day_key], run.when.date)
          /\ Instant(run.when) > Instant(now)

\* Scenario E: only Monday enabled and auto-assigned, no holiday on a Monday,
\* playlist [a, b, c], rotation 2
ScenarioE ==
  /\ cfg.playlist = <<"a", "b", "c">> /\ cfg.playlist_rotation = 2
  /\ cfg.days["mon"].enabled /\ cfg.days["mon"].auto_assign
  /\ \A k \in DayKeySet \ {"mon"} : ~cfg.days[k].enabled
  /\ cfg.holidays = <<>> /\ cfg.holiday_ranges = <<>>

\* compute_upcoming_runs(h, l) has just been called
ProjectionCall(h, l) ==
  /\ ret' # ret
  /\ ret'.op = "compute_upcoming_runs"
  /\ ret'.val.horizon_days = h /\ ret'.val.limit = l

\* C16 as claimed: in scenario E compute_upcoming_runs(horizon_days=14,
\* limit=3) returns exactly three runs, all on Mondays, with audio c, a, b in
\* that order, and the persisted rotation is still 2.
C16_ThreeMondaysInTwoWeeks ==
  [][ScenarioE /\ ProjectionCall(14, 3) =>
       /\ Len(ret'.val.runs) = 3
       /\ \A i \in 1..Len(ret'.val.runs) : ret'.val.runs[i].day_key = "mon"
       /\ AudioOf(ret'.val.runs) = <<"c", "a", "b">>
       /\ cfg'.playlist_rotation = 2]_vars

\* C16 amended: in scenario E compute_upcoming_runs(horizon_days=14, limit=3)
\* returns the Mondays of the next 14 days, one or two runs, with audio c, a in
\* that order; with horizon_days=28 the first three runs are Mondays with audio
\* c, a, b; either way the persisted rotation is still 2.
C16_MondaysWithinHorizon ==
  [][ScenarioE /\ ret' # ret /\ ret'.op = "compute_upcoming_runs" =>
       LET runs == ret'.val.runs
       IN  /\ cfg'.playlist_rotation = 2
           /\ \A i \in 1..Len(runs) :
                runs[i].day_key = "mon" /\ runs[i].when.date % 7 = 0
           /\ (ProjectionCall(14, 3) =>
                 /\ Len(runs) \in {1, 2}
                 /\ AudioOf(runs) = Prefix(<<"c", "a">>, Len(runs)))
           /\ (ProjectionCall(28, NoLimit) =>
                 /\ Len(runs) >= 3
                 /\ AudioOf(Prefix(runs, 3)) = <<"c", "a", "b">>)]_vars

\* scenario E on Monday 2024-01-01 before 09:00: the two-week call returned
\* the Mondays 2024-01-01 and 2024-01-08 with audio c, a
C16_Witness ==
  /\ ScenarioE
  /\ ret.op = "compute_upcoming_runs"
  /\ ret.val.horizon_days = 14 /\ ret.val.limit = 3
  /\ now = [date |-> 0, sec |-> FirstInstant]
  /\ Len(ret.val.runs) = 2
  /\ ret.val.runs[1].when.date = 0 /\ ret.val.runs[2].when.date = 7
  /\ AudioOf(ret.val.runs) = <<"c", "a">>
  /\ cfg.playlist_rotation = 2

\* C17: every fire event of _check_trigger carries allow_remote = (global
\* enable_remote_shutdown AND the slot's allow_remote) and allow_local =
\* (global enable_local_shutdown AND the slot's allow_local_shutdown) of the
\* configuration the poll decided on; every UpcomingRun carries the same two
\* conjunctions of the configuration the projection read.
C17_FlagsAreConjunctions ==
  [][/\ Len(signals') > Len(signals) =>
          LET e == signals'[Len(signals')]
              slot == cfg.days[e.day_key]
          IN  /\ e.allow_remote
                   = (cfg.enable_remote_shutdown /\ slot.allow_remote)
              /\ e.allow_local
                   = (cfg.enable_local_shutdown /\ slot.allow_local_shutdown)
     /\ ret' # ret /\ ret'.op = "compute_upcoming_runs" =>
          \A i \in 1..Len(ret'.val.runs) :
            LET run == ret'.val.runs[i]
                slot == cfg.days[run.day_key]
            IN  /\ run.remote_allowed
                     = (cfg.enable_remote_shutdown /\ slot.allow_remote)
                /\ run.local_allowed
                     = (cfg.enable_local_shutdown /\ slot.allow_local_shutdown)]_vars

\* Monday's fire event is still queued with remote shutdown refused by the
\* slot and local shutdown allowed; the global remote toggle is on; the table
\* refreshed afterwards shows the same flags for Tuesday
C17_Witness ==
  /\ Len(signals) = 1
  /\ signals[1].day_key = "mon"
  /\ ~signals[1].allow_remote /\ signals[1].allow_local
  /\ cfg.enable_remote_shutdown /\ ~cfg.days["mon"].allow_remote
  /\ ret.op = "compute_upcoming_runs"
  /\ Len(ret.val.runs) >= 1
  /\ ~ret.val.runs[1].remote_allowed /\ ret.val.runs[1].local_allowed

\* C18: on the scheduled and on the forced path, shutdown_remote is dispatched
\* only if the global remote toggle and the fired slot's allow_remote are both
\* true, and shutdown_local only if the global local toggle and the slot's
\* allow_local_shutdown are both true.
C18_ShutdownOnlyIfAllowed ==
  [][/\ shut'.remote > shut.remote =>
          cfg.enable_remote_shutdown /\ cfg.days[shut'.day_key].allow_remote
     /\ shut'.local > shut.local =>
          cfg.enable_local_shutdown /\ cfg.days[shut'.day_key].allow_local_shutdown]_vars

\* C19: the cursor advance and the last_ran stamp of a firing decision are
\* committed atomically with the decision: in no reachable state is a fire
\* event emitted while one of its two writes is still to be applied.
C19_FiringWritesAtomic ==
  /\ \A i \in 1..Len(timers) : timers[i].thread # "poll"
  /\ \A d \in Dates :
       emitted[d] >= 1 => cfg.days[DayKeyOf(d)].last_ran = isoformat(d)

\* the polls that fall into one trigger window
PollsPerWindow == TRIGGER_WINDOW \div POLL_INTERVAL + 1

\* C20: a poll either does nothing or fires and schedules the stamp: every
\* emitted fire event is followed, once the deferred update runs, by exactly
\* one _mark for the fired slot and date, and no _mark is applied for a slot
\* and date without a fire event.
C20_FireThenMarkOnce ==
  /\ [](\A d \in Dates : marked[d] <= emitted[d])
  /\ [][\A i \in 1..Len(timers) :
          MarkApplied(i) =>
            /\ timers[i].day_key = DayKeyOf(timers[i].date)
            /\ emitted[timers[i].date] >= marked'[timers[i].date]
            /\ cfg'.days[timers[i].day_key].last_ran = isoformat(timers[i].date)]_vars
  /\ \A d \in Dates : \A n \in 1..PollsPerWindow :
       (emitted[d] >= n) ~> (marked[d] >= n)

\* Monday's slot fired once and was stamped once; the forced run of the same
\* day added no stamp
C20_Witness ==
  /\ emitted[0] = 1 /\ marked[0] = 1
  /\ forced = 1 /\ executed[0] = 2
  /\ timers = <<>>
  /\ cfg.days["mon"].last_ran = isoformat(0)

\* the calls to the outside a firing sequence may have made so far: the
\* target programs are terminated, then the player starts and stops or the
\* empty audio is skipped, then the shutdown threads start; a preview only
\* starts and stops the player
FiringOrders ==
  LET followUps == {<<>>, <<"remote">>, <<"local">>, <<"remote", "local">>}
      full == {<<"terminate", "play", "stopped">> \o f : f \in followUps}
                \cup {<<"terminate", "skipped">> \o f : f \in followUps}
                \cup {<<"play", "stopped">>}
  IN  UNION {{SubSeq(q, 1, n) : n \in 0..Len(q)} : q \in full}

GoodTime(t) == Len(t) = 2 /\ t[1] \in 0..23 /\ t[2] \in 0..59

\* the configuration with every slot of a bad time switched off
BadTimesOff(c) ==
  [c EXCEPT !.days = [k \in DayKeySet |->
                        IF GoodTime(c.days[k].time) THEN c.days[k]
                        ELSE [c.days[k] EXCEPT !.enabled = FALSE,
                                               !.time = <<9, 0>>]]]

\* C22: a slot whose time is malformed or out of range never makes the
\* projection or the polling loop raise or stop: the projection is the one of
\* the configuration with that slot switched off, and the polling thread keeps
\* running.
C22_BadTimeIsSkipped ==
  /\ loop = "running"
  /\ ret.op = "compute_upcoming_runs" =>
       /\ ~Raised(ret.val.runs)
       /\ ret.val.runs = compute_upcoming_runs(BadTimesOff(cfg), now,
                                               ret.val.horizon_days, ret.val.limit)

\* what the poll of this step decided: whether it fired and with which track
Observed ==
  IF emitted' # emitted THEN <<TRUE, signals'[Len(signals')].audio_path>>
  ELSE <<FALSE, NoAudio>>

\* C23: the polling loop never observes a partially applied update: a poll
\* that runs while an update is in progress decides as it would on the
\* configuration entirely before or entirely after that update.
C23_PollSeesWholeUpdates ==
  [][now' # now /\ lock # <<>> =>
       \/ Observed = Decision(lock[1].before, now'.date, now'.sec)
       \/ Observed = Decision(lock[1].after, now'.date, now'.sec)]_vars

\* a deferred update of the given kind runs in this step
Applied(kind) ==
  \E i \in 1..Len(timers) :
    /\ Runnable(i)
    /\ timers[i].kind = kind
    /\ timers' = RemoveAt(timers, i)

\* the same, started by the polling thread
AppliedByPoll(kind) ==
  \E i \in 1..Len(timers) :
    /\ Runnable(i)
    /\ timers[i].kind = kind /\ timers[i].thread = "poll"
    /\ timers' = RemoveAt(timers, i)

StampChanges == \E k \in DayKeySet : cfg'.days[k].last_ran # cfg.days[k].last_ran

\* C24 as claimed: the polling loop is the only writer of last_ran and of the
\* rotation cursor; no day-slot edit, playlist add, reorder or remove, holiday
\* edit, forced run or preview modifies either.
C24_OnlyPollWrites ==
  [][cfg' # cfg =>
       /\ (StampChanges => AppliedByPoll("mark"))
       /\ (cfg'.playlist_rotation # cfg.playlist_rotation => AppliedByPoll("bump"))]_vars

\* C24 amended: last_ran is written only by the stamp of a poll's firing; the
\* rotation cursor is written by the deferred advance of a firing, scheduled
\* or forced, and by the playlist remove, which sets it to 0; day-slot edit,
\* playlist add and reorder, holiday edit and preview modify neither.
C24_WritersOfStampAndCursor ==
  [][cfg' # cfg =>
       /\ (StampChanges => AppliedByPoll("mark"))
       /\ (cfg'.playlist_rotation # cfg.playlist_rotation =>
             \/ Applied("bump")
             \/ /\ cfg'.playlist_rotation = 0
                /\ Len(cfg'.playlist) < Len(cfg.playlist)
                /\ timers' = timers)]_vars

\* the forced run's advance was applied with no fire event emitted, then the
\* user removed a track and the cursor went back to 0
C24_Witness ==
  /\ forced = 1 /\ emitted[0] = 0 /\ timers = <<>>
  /\ cfg.playlist = <<"b">> /\ cfg.playlist_rotation = 0
  /\ adv = [base |-> 0, count |-> 0]
  /\ \A k \in DayKeySet : cfg.days[k].last_ran = NoDate


\* the configuration a restart would read from the file as it is now
Persisted == _load(disk).config

MissingOnLoad(file, k) ==
  \/ ~IsObject(file)
  \/ "days" \notin DOMAIN file
  \/ ~IsObject(file.days)
  \/ k \notin DOMAIN file.days

\* C26: once the configuration is loaded, and after every update that
\* follows, the day table has a slot, with all its fields, under each of the
\* seven keys mon..sun; right after the load every key the file did not have
\* holds the default slot, enabled for mon-fri and not for sat and sun
C26_SevenDayKeys ==
  loop \in {"running", "dead"} =>
    /\ DayKeySet \subseteq DOMAIN cfg.days
    /\ \A k \in DayKeySet : DOMAIN cfg.days[k] = DOMAIN NewDaySchedule
    /\ ret.op = "_load" =>
         \A k \in DayKeySet :
           MissingOnLoad(ret.val, k) =>
             /\ cfg.days[k] = DaySchedule(k)
             /\ cfg.days[k].enabled = (k \notin {"sat", "sun"})

\* a file whose day table has Monday and Saturday only was loaded: both keep
\* what the file said, Tuesday and Sunday hold the defaults
C26_Witness ==
  /\ loop = "running"
  /\ ret.op = "_load"
  /\ ~MissingOnLoad(ret.val, "sat")
  /\ MissingOnLoad(ret.val, "tue")
  /\ ~cfg.days["mon"].auto_assign
  /\ cfg.days["tue"].enabled
  /\ ~cfg.days["sun"].enabled


\* the file is there and is not a configuration: text that is no JSON, a
\* JSON document that is no object, or an object whose day table or one of
\* whose day entries is no object
StructurallyInvalid(file) ==
  \/ file = NotJson
  \/ file # NoFile /\ ~IsObject(file)
  \/ /\ IsObject(file)
     /\ "days" \in DOMAIN file
     /\ \/ ~IsObject(file.days)
        \/ \E k \in DOMAIN file.days : ~IsObject(file.days[k])

\* C27: no file makes the load raise, and right after the load of an
\* unparseable or structurally invalid file the memory holds the default
\* configuration: seven default day slots, empty playlist, rotation 0
C27_CorruptFileGivesDefaults ==
  /\ loop # "crashed"
  /\ (loop = "running" /\ ret.op = "_load" /\ StructurallyInvalid(ret.val)) =>
       cfg = SchedulerConfig


NoDuplicates(playlist) ==
  \A i, j \in 1..Len(playlist) : playlist[i] = playlist[j] => i = j

\* C28: the playlist never holds a path twice, whatever was added, moved and
\* removed, and a choice of files that are all in the playlist already adds
\* nothing: the updater of the add leaves entries and order as they are
C28_PlaylistDuplicateFree ==
  /\ NoDuplicates(cfg.playlist)
  /\ \A paths \in AddChoices :
       (\A i \in 1..Len(paths) : paths[i] \in PlaylistSet(cfg)) =>
         AddFiles(cfg.playlist, paths) = cfg.playlist

\* the playlist of two has grown to three entries: every choice that adds
\* the third names it twice or names an entry that was there already
C28_Witness ==
  /\ Len(cfg.playlist) = 3
  /\ PlaylistSet(cfg) = Tracks

\* the number of rows in which two playlists of one length differ
Differing(p, q) == Cardinality({i \in 1..Len(p) : p[i] # q[i]})

\* C29: a step of the playlist panel (no deferred update is applied in it)
\* that shortens the playlist leaves the rotation at 0; one that does not
\* shorten it leaves the rotation as it was, and if it keeps the length and
\* changes the playlist, the playlist has the same entries with two rows
\* exchanged
C29_CursorUnderPlaylistEdits ==
  [][timers' = timers =>
       IF Len(cfg'.playlist) < Len(cfg.playlist)
       THEN cfg'.playlist_rotation = 0
       ELSE /\ cfg'.playlist_rotation = cfg.playlist_rotation
            /\ (Len(cfg'.playlist) = Len(cfg.playlist)
                /\ cfg'.playlist # cfg.playlist) =>
                 /\ PlaylistSet(cfg') = PlaylistSet(cfg)
                 /\ NoDuplicates(cfg'.playlist)
                 /\ Differing(cfg.playlist, cfg'.playlist) = 2]_vars

\* nothing has fired, so the rotation was 1 or 2 as at the start when the
\* playlist was cut down to one entry, and it is 0 now
C29_Witness ==
  /\ Len(cfg.playlist) = 1
  /\ cfg.playlist_rotation = 0
  /\ emitted[0] = 0
  /\ timers = <<>>


\* every stored range has its start on or before its end
RangesOrdered ==
  \A i \in 1..Len(cfg.holiday_ranges) :
    /\ strptime(cfg.holiday_ranges[i].start) >= 0
    /\ strptime(cfg.holiday_ranges[i].start) <= strptime(cfg.holiday_ranges[i].end)

\* the call just made gave two dates with the end before the start
BackwardRange(call) ==
  /\ call.op \in {"_add_range", "add_holiday_range"}
  /\ call.date >= 0 /\ call.val.end >= 0
  /\ call.val.end < call.date

\* C30: a range whose end lies before its start is refused by the window and
\* holiday_ranges stays as it was, and every stored range has start <= end
C30_BackwardRangeRejected ==
  /\ []RangesOrdered
  /\ [][BackwardRange(ret') =>
          /\ ~ret'.val.accepted
          /\ cfg'.holiday_ranges = cfg.holiday_ranges]_vars


\* how often x stands in a list
Count(x, list) == Cardinality({i \in 1..Len(list) : list[i] = x})

\* the last call removed an item of the holiday panel
Removal(call, kind) == call.op = "_context_remove" /\ call.key = kind

\* the range matches the key of the removed item in both dates
SameRange(rng, key) == rng.start = key.start /\ rng.end = key.end

\* C31: a step that adds a single date leaves it in the list once more than
\* before only if it was not there, so a second add of the same date changes
\* nothing; a removal of a single date or of a range that the calendar does
\* not hold changes nothing; a removal of a range leaves every entry that
\* differs from the key in start or end where it was, and touches no single
\* date
C31_CalendarEditsIdempotent ==
  [][/\ \A x \in CalendarDates :
          Count(x, cfg'.holidays) > Count(x, cfg.holidays) =>
            /\ Count(x, cfg.holidays) = 0
            /\ cfg'.holidays = Append(cfg.holidays, x)
     /\ (ret' # ret /\ Removal(ret', "single")) =>
          /\ cfg'.holiday_ranges = cfg.holiday_ranges
          /\ Count(ret'.val.start, cfg.holidays) = 0 => cfg' = cfg
          /\ \A x \in CalendarDates \ {ret'.val.start} :
               Count(x, cfg'.holidays) = Count(x, cfg.holidays)
     /\ (ret' # ret /\ Removal(ret', "range")) =>
          /\ cfg'.holidays = cfg.holidays
          /\ (\A i \in 1..Len(cfg.holiday_ranges) :
                ~SameRange(cfg.holiday_ranges[i], ret'.val)) => cfg' = cfg
          /\ SelectSeq(cfg'.holiday_ranges, LAMBDA r : ~SameRange(r, ret'.val))
               = SelectSeq(cfg.holiday_ranges, LAMBDA r : ~SameRange(r, ret'.val))
          /\ Len(cfg'.holiday_ranges) <= Len(cfg.holiday_ranges)]_vars

\* the range 2024-01-02 ~ 2024-01-04 was removed and the range
\* 2024-01-02 ~ 2024-01-05, which shares its start, is still there, beside a
\* single date that was added once
C31_Witness ==
  /\ Removal(ret, "range")
  /\ ret.val = [start |-> isoformat(1), end |-> isoformat(3)]
  /\ cfg.holiday_ranges = <<[start |-> isoformat(1), end |-> isoformat(4)]>>
  /\ cfg.holidays = <<isoformat(2)>>


\* the range lacks a date or one of its two values is no date of the
\* calendar
Malformed(rng) == strptime(rng.start) < 0 \/ strptime(rng.end) < 0

\* the configuration without its malformed ranges
WellFormedOnly(c) ==
  [c EXCEPT !.holiday_ranges = SelectSeq(@, LAMBDA rng : ~Malformed(rng))]

\* C32: the holiday test answers what it would answer without the malformed
\* ranges: none of them makes a date a holiday, and a well-formed range
\* behind a malformed one still does
C32_MalformedRangeNeverMatches ==
  /\ ret.op = "is_holiday" =>
       ret.val = is_holiday(WellFormedOnly(cfg), ret.date)
  /\ ret.op = "is_holiday_date" =>
       ret.val = is_holiday_date(WellFormedOnly(cfg), ret.date)

\* C33: while the polling thread is alive and polls every 15 s, the window
\* [target, target + 30 s] of an enabled, non-holiday slot that was not yet
\* fired is not missed: the first poll at or after the target falls inside
\* the window, and from that poll on a fire event of the date is emitted.
NotMissed ==
  LET slot == cfg.days[DayKeyOf(now.date)]
  IN  (/\ loop = "running"
       /\ slot.enabled
       /\ ~HolidayRule(cfg, now.date)
       /\ slot.last_ran # isoformat(now.date) \/ marked[now.date] > 0
       /\ GoodTime(slot.time)
       /\ now.sec >= TargetSecs(slot))
      => emitted[now.date] >= 1

C33_WindowNotMissed ==
  /\ []NotMissed
  /\ [][LET slot == cfg.days[DayKeyOf(now.date)]
        IN  (/\ now' # now
             /\ GoodTime(slot.time)
             /\ now.sec < TargetSecs(slot)
             /\ now'.sec >= TargetSecs(slot))
            => now'.sec <= TargetSecs(slot) + TRIGGER_WINDOW]_vars

\* the poll of 09:00:14 has fired the Monday slot, the one of 08:59:59 had
\* not, and the stamp is not applied yet
C33_Witness ==
  /\ GoodTime(cfg.days["mon"].time)
  /\ now = [date |-> 0, sec |-> TargetSecs(cfg.days["mon"]) + POLL_INTERVAL - 1]
  /\ loop = "running"
  /\ cfg.days["mon"].enabled /\ ~HolidayRule(cfg, 0)
  /\ cfg.days["mon"].last_ran = NoDate
  /\ emitted[0] = 1
  /\ marked[0] = 0

\* the threads start() has created that have not left _loop
AliveLoops == {i \in 1..Len(engine.threads) : is_alive(engine, i)}

C35_AtMostOneLoop ==
  /\ [](Cardinality(AliveLoops) <= 1)
  /\ [][AliveLoops # {} => Len(engine'.threads) = Len(engine.threads)]_vars

\* start() was called after a stop() whose join had timed out: the flag is
\* still set, the first thread is still inside its pass, and no thread was
\* created
C35_Witness ==
  /\ ret.op = "start" /\ ret.val = FALSE
  /\ engine.stop /\ ~engine.joining
  /\ engine.threads = <<"body">>

Dispatched == shut'.remote > shut.remote \/ shut'.local > shut.local
Firing == executed' # executed

WeeklyTrack(c, d) ==
  LET on == {i \in 1..7 : c.days[DAY_KEYS[i]].enabled}
      me == CHOOSE i \in 1..7 : DAY_KEYS[i] = d
      p == IF on = {} THEN me - 1 ELSE Cardinality({i \in on : i < me})
  IN  c.playlist[((c.playlist_rotation + p) % Len(c.playlist)) + 1]

\* C38: NiceGUI variant, weekly mode, non-empty playlist: the scheduler loop
\* resolves for today, and the table of upcoming events shows for each of
\* its days, the file playlist[(base_index + p) mod L], p being the position
\* of the day among the enabled days; and the loop resolves for today what
\* compute_play_path_for_day gives for the same configuration.
C38_WeeklyTrackByEnabledPosition ==
  /\ ret.op = "scheduler_loop" =>
       /\ ret.val.path = compute_play_path_for_day(cfg, ret.key)
       /\ (cfg.days[ret.key].auto_assign /\ cfg.playlist # <<>>) =>
            ret.val.path = WeeklyTrack(cfg, ret.key)
  /\ ret.op = "compute_upcoming_events" =>
       \A i \in 1..Len(ret.val) :
         (~ret.val[i].fixed /\ cfg.playlist # <<>>) =>
           ret.val[i].path = WeeklyTrack(cfg, ret.val[i].dkey)

\* Friday 2024-01-05, Monday to Friday enabled, base index 1, three files:
\* the loop has played "c", the file of index (1 + 4) mod 3 = 2
C38_Witness ==
  /\ ret.op = "scheduler_loop" /\ ret.key = "fri"
  /\ \A k \in DayKeySet : cfg.days[k].enabled <=> k \notin {"sat", "sun"}
  /\ cfg.playlist = <<"a", "b", "c">> /\ cfg.playlist_rotation = 1
  /\ cfg.days["fri"].auto_assign
  /\ ret.val = [path |-> "c", played |-> TRUE]

====
